---- MODULE Spec2Model ----
(***************************************************************************)
(* Model of belvys: the Structure registry (structure.py) and the Tenant   *)
(* orchestrator (tenant.py).                                               *)
(*                                                                         *)
(* Python values (str / list / dict / None / other) are tagged records of  *)
(* one shape, so that values of different Python types can be compared:    *)
(*   t  : the Python type ("str", "list", "dict", "none", "int", "raise")  *)
(*   s  : the string of a str, the exception of a raise                    *)
(*   ks : the keys of a dict, in insertion order                           *)
(*   c  : the elements of a list, the values of a dict (in key order)      *)
(***************************************************************************)
EXTENDS Integers, Sequences, FiniteSets, TLC

VARIABLES
    cfg,        \* the fields given to Structure(...)
    st,         \* the Structure
    ret,        \* the last registry query and what it returned
    pc,         \* where the Tenant operation in progress stands
    call,       \* the Tenant operation in progress and its arguments
    todo,       \* portfolio_pfl: the original pfids still to visit
    ts_tree,    \* the tree _fetch_series is filling
    pos,        \* the leaf of ts_tree _fetch_series is at (traversal order)
    ts_trees,   \* portfolio_pfl: the trees fetched so far
    out,        \* what the last Tenant operation returned or raised
    cache,      \* Api._cache
    log,        \* the requests sent to the server by the operation in progress
    aftercare,  \* Tenant._aftercare
    retry,      \* Api._retry
    qpc,        \* where the call of Api.query in progress stands
    qcall,      \* the call of Api.query in progress: what it sent and received so far
    hist        \* the calls of Api.query that ended, oldest first

ovars == <<pc, call, todo, ts_tree, pos, ts_trees, out, cache, log, aftercare>>
qvars == <<retry, qpc, qcall, hist>>
tvars == <<pc, call, todo, ts_tree, pos, ts_trees, out, cache, log, aftercare, retry, qpc, qcall, hist>>
vars == <<cfg, st, ret, pc, call, todo, ts_tree, pos, ts_trees, out, cache, log, aftercare, retry, qpc, qcall, hist>>

----------------------------------------------------------------------------
(* Python values *)

Str(x) == [t |-> "str", s |-> x, ks |-> <<>>, c |-> <<>>]
Lst(xs) == [t |-> "list", s |-> "", ks |-> <<>>, c |-> xs]
Dct(keys, xs) == [t |-> "dict", s |-> "", ks |-> keys, c |-> xs]
NoneV == [t |-> "none", s |-> "", ks |-> <<>>, c |-> <<>>]
IntV == [t |-> "int", s |-> "", ks |-> <<>>, c |-> <<>>]
Raise(e) == [t |-> "raise", s |-> e, ks |-> <<>>, c |-> <<>>]

EmptyDict == Dct(<<>>, <<>>)

IsRaise(v) == v.t = "raise"

\* dict.keys(), k in dict, dict[k], dict.get(k, default)
Keys(d) == {d.ks[i] : i \in DOMAIN d.ks}
HasKey(d, k) == \E i \in DOMAIN d.ks : d.ks[i] = k
Get(d, k) == d.c[CHOOSE i \in DOMAIN d.ks : d.ks[i] = k]
GetOr(d, k, default) == IF HasKey(d, k) THEN Get(d, k) ELSE default

\* The first exception among the values of a sequence (evaluation left to right).
FirstRaise(xs) == xs[CHOOSE i \in DOMAIN xs : IsRaise(xs[i]) /\ \A j \in 1..(i-1) : ~IsRaise(xs[j])]
AnyRaise(xs) == \E i \in DOMAIN xs : IsRaise(xs[i])

\* Ts(pfid, name): tsid and series start as None.
NoTsid == 0
NoSeries == [dim |-> "none", v |-> <<>>, idx |-> <<>>, tz |-> "", freq |-> 0, adj |-> <<>>]
Ts_with_id(pfid, name) == [t |-> "ts", pfid |-> pfid, name |-> name, tsid |-> 1, series |-> NoSeries]
Ts(pfid, name) == [t |-> "ts", pfid |-> pfid, name |-> name, tsid |-> NoTsid, series |-> NoSeries]

\* dt.timedelta(hours=2), in minutes
TwoHours == 120

\* Bound of the interpreter's call stack (sys.getrecursionlimit(), scaled down).
RecursionLimit == 12

\* Iterating over a str yields its characters.
CharsOf(x) ==
    CASE x = "A" -> <<"A">>
      [] x = "S" -> <<"S">>
      [] x = "T" -> <<"T">>
      [] x = "Z" -> <<"Z">>
      [] x = "P1" -> <<"P", "1">>
      [] OTHER -> <<x>>

\* iter(v) of a str or a list
Iter(v) == IF v.t = "str" THEN [i \in DOMAIN CharsOf(v.s) |-> Str(CharsOf(v.s)[i])] ELSE v.c

----------------------------------------------------------------------------
(* create_tstree *)

RECURSIVE create_tstree(_, _)
create_tstree(pfid, tsname_tree) ==
    CASE tsname_tree.t = "dict" ->
            Dct(tsname_tree.ks, [i \in DOMAIN tsname_tree.c |-> create_tstree(pfid, tsname_tree.c[i])])
      [] tsname_tree.t = "str" -> Lst(<<Ts(pfid, tsname_tree)>>)
      [] tsname_tree.t = "list" -> Lst([i \in DOMAIN tsname_tree.c |-> Ts(pfid, tsname_tree.c[i])])
      [] OTHER -> NoneV

----------------------------------------------------------------------------
(* Portfolios *)

\* ref in self.original  (self.original is a list of str)
InOriginal(original, ref) == ref.t = "str" /\ \E i \in DOMAIN original.c : original.c[i] = ref

\* Portfolios._assert_valid_ref: TRUE iff no AssertionError is raised.
RECURSIVE assert_valid_ref_ignoring_nested(_, _, _)
assert_valid_ref_ignoring_nested(original, synthetic, ref) ==
    CASE ref.t = "str" -> InOriginal(original, ref) \/ HasKey(synthetic, ref.s)
      [] ref.t = "list" -> \A i \in DOMAIN ref.c : ref.c[i].t = "str" => assert_valid_ref_ignoring_nested(original, synthetic, ref.c[i])
      [] OTHER -> FALSE

RECURSIVE assert_valid_ref(_, _, _)
assert_valid_ref(original, synthetic, ref) ==
    CASE ref.t = "str" -> InOriginal(original, ref) \/ HasKey(synthetic, ref.s)
      [] ref.t = "list" -> \A i \in DOMAIN ref.c : assert_valid_ref(original, synthetic, ref.c[i])
      [] OTHER -> FALSE

\* Portfolios.__post_init__: "" when it returns, else the exception raised.
Portfolios_post_init(original, synthetic) ==
    IF original.t \in {"int", "none"} THEN "TypeError: 'original' must be Iterable"
    ELSE IF Len(original.c) = 0 THEN "ValueError: 'original' must have at least one element"
    ELSE IF \E i \in DOMAIN synthetic.c : ~assert_valid_ref(original, synthetic, synthetic.c[i])
         THEN "ValueError: Unexpected value for 'synthetic'"
    ELSE ""

----------------------------------------------------------------------------
(* Structure *)

\* Structure._expand_tree; fuel is the remaining depth of the call stack.
RECURSIVE expand_tree_one_level(_, _, _)
expand_tree_one_level(pflines, tsname_tree, fuel) ==
    IF fuel = 0 THEN Raise("RecursionError")
    ELSE CASE tsname_tree.t = "none" -> tsname_tree
           [] tsname_tree.t = "dict" ->
                LET sub == [i \in DOMAIN tsname_tree.c |-> expand_tree_one_level(pflines, tsname_tree.c[i], fuel - 1)]
                IN  IF AnyRaise(sub) THEN FirstRaise(sub) ELSE Dct(tsname_tree.ks, sub)
           [] tsname_tree.t = "str" ->
                IF HasKey(pflines, tsname_tree.s) THEN Get(pflines, tsname_tree.s) ELSE tsname_tree
           [] tsname_tree.t = "list" ->
                LET sub == [i \in DOMAIN tsname_tree.c |-> expand_tree_one_level(pflines, tsname_tree.c[i], fuel - 1)]
                IN  IF AnyRaise(sub) THEN FirstRaise(sub) ELSE Lst(sub)
           [] OTHER -> Raise("TypeError")

RECURSIVE expand_tree(_, _, _)
expand_tree(pflines, tsname_tree, fuel) ==
    IF fuel = 0 THEN Raise("RecursionError")
    ELSE CASE tsname_tree.t = "none" -> tsname_tree
           [] tsname_tree.t = "dict" ->
                LET sub == [i \in DOMAIN tsname_tree.c |-> expand_tree(pflines, tsname_tree.c[i], fuel - 1)]
                IN  IF AnyRaise(sub) THEN FirstRaise(sub) ELSE Dct(tsname_tree.ks, sub)
           [] tsname_tree.t = "str" ->
                IF HasKey(pflines, tsname_tree.s)
                THEN expand_tree(pflines, Get(pflines, tsname_tree.s), fuel - 1)
                ELSE tsname_tree
           [] tsname_tree.t = "list" ->
                LET sub == [i \in DOMAIN tsname_tree.c |-> expand_tree(pflines, tsname_tree.c[i], fuel - 1)]
                IN  IF AnyRaise(sub) THEN FirstRaise(sub) ELSE Lst(sub)
           [] OTHER -> Raise("TypeError")

\* The assertions of Structure.__post_init__ on corrections: TRUE iff none fails.
corrections_valid_keys_only(original, pflines, corrections) ==
    \A i \in DOMAIN corrections.ks : InOriginal(original, Str(corrections.ks[i]))

corrections_valid(original, pflines, corrections) ==
    \A i \in DOMAIN corrections.ks :
        /\ InOriginal(original, Str(corrections.ks[i]))
        /\ \A j \in DOMAIN corrections.c[i].ks :
               corrections.c[i].c[j].t = "none" => HasKey(pflines, corrections.c[i].ks[j])

\* The assertions of __post_init__ on prices.
prices_valid(prices) ==
    \A i \in DOMAIN prices.c :
        /\ HasKey(prices.c[i], "pfid")
        /\ HasKey(prices.c[i], "tsnames")
        /\ Get(prices.c[i], "tsnames").t \in {"str", "dict", "list"}

NotConstructed == [status |-> "new", err |-> "", pflines |-> EmptyDict, original |-> Lst(<<>>),
                   synthetic |-> EmptyDict, corrections |-> EmptyDict, prices |-> EmptyDict, tz |-> ""]
Raised(e) == [NotConstructed EXCEPT !.status = "raised", !.err = e]

\* Structure.__post_init__ on the fields given to the constructor.
Structure_post_init(c) ==
    LET perr == Portfolios_post_init(c.original, c.synthetic)
        expanded == [i \in DOMAIN c.pflines.c |-> expand_tree(c.pflines, c.pflines.c[i], RecursionLimit)]
    IN  IF perr # "" THEN Raised(perr)
        ELSE IF AnyRaise(expanded) THEN Raised(FirstRaise(expanded).s)
        ELSE IF ~corrections_valid(c.original, c.pflines, c.corrections) THEN Raised("AssertionError")
        ELSE IF ~prices_valid(c.prices) THEN Raised("AssertionError")
        ELSE [status |-> "ok", err |-> "", pflines |-> Dct(c.pflines.ks, expanded),
              original |-> c.original, synthetic |-> c.synthetic, corrections |-> c.corrections,
              prices |-> c.prices, tz |-> c.tz]

\* Structure.available_pfids
available_pfids_ignoring_flag(S, original_only) ==
    [i \in DOMAIN S.original.c |-> S.original.c[i].s] \o S.synthetic.ks

available_pfids(S, original_only) ==
    IF original_only THEN [i \in DOMAIN S.original.c |-> S.original.c[i].s]
    ELSE [i \in DOMAIN S.original.c |-> S.original.c[i].s] \o S.synthetic.ks

\* Structure.available_priceids
available_priceids(S) == S.prices.ks

\* Structure.tstree_price
tstree_price(S, priceid) ==
    IF ~HasKey(S.prices, priceid) THEN Raise("ValueError: priceid must be one of")
    ELSE create_tstree(Get(Get(S.prices, priceid), "pfid").s, Get(Get(S.prices, priceid), "tsnames"))

\* Structure.tstree_pfline
tstree_pfline_any_pfid(S, pfid, pflineid) ==
    LET tsname_tree == GetOr(GetOr(S.corrections, pfid, EmptyDict), pflineid, Str("notfound"))
        default == GetOr(S.pflines, pflineid, NoneV)
    IN  IF tsname_tree.t = "none" THEN Raise("ValueError: line does not exist")
        ELSE IF tsname_tree # Str("notfound") THEN create_tstree(pfid, tsname_tree)
        ELSE IF default.t = "none" THEN Raise("ValueError: line does not exist")
        ELSE create_tstree(pfid, default)

tstree_pfline(S, pfid, pflineid) ==
    LET tsname_tree == GetOr(GetOr(S.corrections, pfid, EmptyDict), pflineid, Str("notfound"))
        default == GetOr(S.pflines, pflineid, NoneV)
    IN  IF ~InOriginal(S.original, Str(pfid)) THEN Raise("ValueError: pfid must be one of")
        ELSE IF tsname_tree.t = "none" THEN Raise("ValueError: line does not exist")
        ELSE IF tsname_tree # Str("notfound") THEN create_tstree(pfid, tsname_tree)
        ELSE IF default.t = "none" THEN Raise("ValueError: line does not exist")
        ELSE create_tstree(pfid, default)

\* Structure.to_original_pfids; pfid is any value met while iterating over references.
\* The result is the list of pfids (str values) or the exception raised.
RECURSIVE to_original_pfids_dedup(_, _, _)
RECURSIVE to_original_pfids(_, _, _)

\* The loop of to_original_pfids over the children from index i on, appending to acc.
RECURSIVE to_original_loop(_, _, _, _, _)
to_original_loop(S, children, i, acc, fuel) ==
    IF i > Len(children) THEN Lst(acc)
    ELSE LET sub == to_original_pfids(S, children[i], fuel - 1)
         IN  IF IsRaise(sub) THEN sub
             ELSE to_original_loop(S, children, i + 1, acc \o sub.c, fuel)

RECURSIVE to_original_loop_dedup(_, _, _, _, _)
to_original_loop_dedup(S, children, i, acc, fuel) ==
    IF i > Len(children) THEN Lst(acc)
    ELSE LET sub == to_original_pfids_dedup(S, children[i], fuel - 1)
         IN  IF IsRaise(sub) THEN sub
             ELSE to_original_loop_dedup(S, children, i + 1,
                    acc \o SelectSeq(sub.c, LAMBDA x : \A k \in DOMAIN acc : acc[k] # x), fuel)

to_original_pfids_dedup(S, pfid, fuel) ==
    IF fuel = 0 THEN Raise("RecursionError")
    ELSE IF InOriginal(S.original, pfid) THEN Lst(<<pfid>>)
    ELSE IF pfid.t = "list" THEN Raise("TypeError")
    ELSE IF pfid.t = "str" /\ HasKey(S.synthetic, pfid.s)
         THEN to_original_loop_dedup(S, Iter(Get(S.synthetic, pfid.s)), 1, <<>>, fuel)
    ELSE Raise("ValueError: could not find portfolio id")

to_original_pfids(S, pfid, fuel) ==
    IF fuel = 0 THEN Raise("RecursionError")
    ELSE IF InOriginal(S.original, pfid) THEN Lst(<<pfid>>)
    ELSE IF pfid.t = "list" THEN Raise("TypeError")   \* unhashable: pfid in dict
    ELSE IF pfid.t = "str" /\ HasKey(S.synthetic, pfid.s)
         THEN to_original_loop(S, Iter(Get(S.synthetic, pfid.s)), 1, <<>>, fuel)
    ELSE Raise("ValueError: could not find portfolio id")

\* A set of pfline ids as a result, or the exception raised.
IdSet(ids) == [err |-> "", ids |-> ids]
IdErr(e) == [err |-> e, ids |-> {}]

\* The loop over the corrections of an original portfolio, from entry j on.
RECURSIVE apply_corrections_add_only(_, _, _)
apply_corrections_add_only(corr, j, pflineids) ==
    IF j > Len(corr.ks) THEN IdSet(pflineids)
    ELSE apply_corrections_add_only(corr, j + 1, pflineids \cup {corr.ks[j]})

RECURSIVE apply_corrections(_, _, _)
apply_corrections(corr, j, pflineids) ==
    IF j > Len(corr.ks) THEN IdSet(pflineids)
    ELSE IF corr.c[j].t = "none"
         THEN IF corr.ks[j] \in pflineids
              THEN apply_corrections(corr, j + 1, pflineids \ {corr.ks[j]})
              ELSE IdErr("KeyError")
         ELSE apply_corrections(corr, j + 1, pflineids \cup {corr.ks[j]})

\* Structure.available_pflineids for an original portfolio.
available_original(S, pfid) ==
    apply_corrections(GetOr(S.corrections, pfid, EmptyDict), 1, Keys(S.pflines))

\* Structure.available_pflineids
available_pflineids(S, pfid) ==
    IF InOriginal(S.original, Str(pfid)) THEN available_original(S, pfid)
    ELSE LET original_pfids == to_original_pfids(S, Str(pfid), RecursionLimit)
             sets == [i \in DOMAIN original_pfids.c |-> available_original(S, original_pfids.c[i].s)]
         IN  IF IsRaise(original_pfids) THEN IdErr(original_pfids.s)
             ELSE IF Len(sets) = 0 THEN IdErr("TypeError")   \* set.intersection() of no sets
             ELSE IF \E i \in DOMAIN sets : sets[i].err # ""
                  THEN IdErr(sets[CHOOSE i \in DOMAIN sets : sets[i].err # ""].err)
             ELSE IdSet({l \in sets[1].ids : \A i \in DOMAIN sets : l \in sets[i].ids})

----------------------------------------------------------------------------
(* The configurations given to the constructor *)

\* Portfolio ids: A and P1 may be original, S and T synthetic, Z is declared nowhere.
PfIds == {"A", "P1", "S", "T", "Z"}
\* Pfline ids: a, b, c may be templates; d is met in corrections only.
PflineIds == {"a", "b", "c", "d"}

Originals == {IntV, Lst(<<>>), Lst(<<Str("A")>>), Lst(<<Str("A"), Str("P1")>>)}

RefElems == {Str("A"), Str("P1"), Str("S"), Str("T"), Str("Z"), Lst(<<Str("P1")>>), IntV}
RefsS == {Str(i) : i \in PfIds} \cup {IntV, Lst(<<>>)}
           \cup {Lst(<<x>>) : x \in RefElems}
           \cup {Lst(<<x, y>>) : x \in RefElems, y \in RefElems}
RefsT == {Lst(<<Str("P1"), Str("A")>>), Str("S")}
Synthetics == {EmptyDict}
                \cup {Dct(<<"S">>, <<r>>) : r \in RefsS}
                \cup {Dct(<<"S", "T">>, <<r, q>>) : r \in RefsS, q \in RefsT}

TemplatesA == {Str("x"), Str("b"), Str("a"),
               Lst(<<Str("x"), Str("y")>>), Lst(<<Str("x"), Str("b")>>),
               Dct(<<"k1">>, <<Str("b")>>),
               Dct(<<"k1", "k2">>, <<Dct(<<"k3">>, <<Str("b")>>), Lst(<<Str("y"), Str("x")>>)>>)}
TemplatesB == {Str("y"), Str("c"), Lst(<<Str("x"), Str("y")>>), Dct(<<"k3">>, <<Str("c")>>), Str("a")}
TemplatesC == {Lst(<<Str("y")>>)}
Pflines == {Dct(<<"a">>, <<ta>>) : ta \in TemplatesA}
             \cup {Dct(<<"a", "b">>, <<ta, tb>>) : ta \in TemplatesA, tb \in TemplatesB}
             \cup {Dct(<<"a", "b", "c">>, <<ta, tb, tc>>) : ta \in TemplatesA, tb \in TemplatesB, tc \in TemplatesC}

\* One correction value per (portfolio, line); Absent: the line has no entry.
Absent == [t |-> "absent", s |-> "", ks |-> <<>>, c |-> <<>>]
\* The dict of the entries that are not Absent.
DictOf(keys, vals) ==
    LET idx == SelectSeq([i \in DOMAIN keys |-> i], LAMBDA i : vals[i] # Absent)
    IN  Dct([j \in DOMAIN idx |-> keys[idx[j]]], [j \in DOMAIN idx |-> vals[idx[j]]])

CorrectionsOfA == {DictOf(<<"a", "d">>, <<va, vd>>) :
                     va \in {Absent, NoneV, Str("x"), Str("b"), Str("notfound"), Dct(<<"k1">>, <<Str("a")>>)},
                     vd \in {Absent, NoneV, Lst(<<Str("y"), Str("b")>>), Str("notfound")}}
CorrectionsOfP1 == {EmptyDict, Dct(<<"b", "d">>, <<NoneV, Str("y")>>)}
\* A portfolio has a key in corrections iff it has an entry; S is not an original portfolio.
CorrectionsSet == {DictOf(<<"A", "P1">>,
                          <<IF ca = EmptyDict THEN Absent ELSE ca,
                            IF cp = EmptyDict THEN Absent ELSE cp>>) :
                     ca \in CorrectionsOfA, cp \in CorrectionsOfP1}
                    \cup {Dct(<<"S">>, <<Dct(<<"a">>, <<Str("x")>>)>>),
                          Dct(<<"A", "S">>, <<Dct(<<"a">>, <<NoneV>>), Dct(<<"d">>, <<Str("x")>>)>>)}

\* prices: price id -> {pfid, tsnames}
Prices == Dct(<<"pr1", "pr2">>,
              <<Dct(<<"pfid", "tsnames">>, <<Str("M"), Str("d")>>),
                Dct(<<"pfid", "tsnames">>, <<Str("P1"), Lst(<<Str("y")>>)>>)>>)

Config(o, sy, pl, co) ==
    [original |-> o, synthetic |-> sy, pflines |-> pl, corrections |-> co, prices |-> Prices, tz |-> "Europe/Berlin"]

\* Every shape of portfolios, with few pflines and corrections.
PortfolioConfigs ==
    {Config(o, sy, pl, co) :
        o \in Originals, sy \in Synthetics,
        pl \in {Dct(<<"a", "b">>, <<Str("x"), Lst(<<Str("x"), Str("y")>>)>>)},
        co \in {EmptyDict, Dct(<<"A">>, <<Dct(<<"a", "d">>, <<NoneV, Str("y")>>)>>)}}

\* Every shape of pflines and corrections, with few portfolios.
PflineConfigs ==
    {Config(o, sy, pl, co) :
        o \in {Lst(<<Str("A"), Str("P1")>>)},
        sy \in {Dct(<<"S", "T">>, <<Lst(<<Str("A"), Str("P1"), Str("A")>>), Lst(<<Str("S"), Str("P1")>>)>>)},
        pl \in Pflines, co \in CorrectionsSet}

Configs == PortfolioConfigs \cup PflineConfigs

\* The trees expand is applied to after construction.
ExpandArgs == TemplatesA \cup TemplatesB \cup {NoneV, Str("d"), Lst(<<Str("a"), Str("c")>>)}

----------------------------------------------------------------------------
(* The server: the timeseries of each portfolio, and their data *)

Dims == {"power", "price", "revenue"}

\* Timestamps are minutes (UTC); the server stamps sub-daily values at the end of their
\* period and daily values at the start.
Hourly == <<60, 120, 180>>
TwoHourly == <<120, 240, 360>>
ThreeHourly == <<180, 360, 540>>
Daily == <<0, 1440, 2880>>
Irregular == <<60, 120, 240>>

\* The timeseries the server holds; portfolio A has two timeseries with the name z.
RemoteTs == {
    [pfid |-> "A", name |-> "x", tsid |-> 1, dim |-> "power", v |-> <<10, 20, 30>>, idx |-> Hourly],
    [pfid |-> "A", name |-> "y", tsid |-> 2, dim |-> "power", v |-> <<5, 5, 5>>, idx |-> Hourly],
    [pfid |-> "A", name |-> "r", tsid |-> 3, dim |-> "revenue", v |-> <<6, 6, 6>>, idx |-> Hourly],
    [pfid |-> "P1", name |-> "x", tsid |-> 4, dim |-> "power", v |-> <<1, 2, 3>>, idx |-> Hourly],
    [pfid |-> "P1", name |-> "y", tsid |-> 5, dim |-> "price", v |-> <<7, 8, 9>>, idx |-> Hourly],
    [pfid |-> "A", name |-> "z", tsid |-> 6, dim |-> "power", v |-> <<1, 1, 1>>, idx |-> Hourly],
    [pfid |-> "A", name |-> "z", tsid |-> 7, dim |-> "power", v |-> <<2, 2, 2>>, idx |-> Hourly],
    [pfid |-> "M", name |-> "d", tsid |-> 8, dim |-> "price", v |-> <<50, 51, 52>>, idx |-> Daily],
    [pfid |-> "M", name |-> "h", tsid |-> 9, dim |-> "price", v |-> <<40, 41, 42>>, idx |-> TwoHourly],
    [pfid |-> "M", name |-> "g", tsid |-> 10, dim |-> "price", v |-> <<30, 31, 32>>, idx |-> ThreeHourly],
    [pfid |-> "M", name |-> "i", tsid |-> 11, dim |-> "price", v |-> <<20, 21, 22>>, idx |-> Irregular] }
RemoteOf(tsid) == CHOOSE r \in RemoteTs : r.tsid = tsid

\* A request sent through Api.query, and the same request when the query raised.
Request(op, pfid, tsid) == [op |-> op, pfid |-> pfid, tsid |-> tsid, ok |-> TRUE]
Failed(req) == [req EXCEPT !.ok = FALSE]
\* The first k requests of reqs, the last of them failing.
FailingAt(reqs, k) == [i \in 1..k |-> IF i = k THEN Failed(reqs[i]) ELSE reqs[i]]

\* pd.infer_freq: the step of an evenly spaced index, NoFreq (None) otherwise.
NoFreq == 0
InferFreq(idx) ==
    IF \A k \in 2..Len(idx) : idx[k] - idx[k - 1] = idx[2] - idx[1] THEN idx[2] - idx[1] ELSE NoFreq

\* Api.series: dimension (from the unit), values, index (in UTC), frequency of the index;
\* adj: the adjustments applied to the series so far.
Series(dim, v, idx) ==
    [dim |-> dim, v |-> v, idx |-> idx, tz |-> "UTC", freq |-> InferFreq(idx), adj |-> <<>>]

----------------------------------------------------------------------------
(* Api *)

\* Api.read_cache: the cached tsid, NoTsid (None) without one.
read_cache_always_none(c, pfid, tsname) == NoTsid

read_cache(c, pfid, tsname) ==
    IF \E e \in c : e.pfid = pfid /\ e.name = tsname
    THEN (CHOOSE e \in c : e.pfid = pfid /\ e.name = tsname).tsid
    ELSE NoTsid

\* Api.write_cache: dict.update with the entries found.
write_cache(c, pfid, found) ==
    {e \in c : ~(e.pfid = pfid /\ \E f \in found : f.name = e.name)}
        \cup {[pfid |-> pfid, name |-> f.name, tsid |-> f.tsid] : f \in found}

\* Api.all_ts: the dict {name: tsid} of a portfolio, as a set of entries.
\* The server lists the timeseries by ascending id; found[tsname] = tsid keeps, of the
\* timeseries with one name, the one listed last.
all_ts(pfid) ==
    {[name |-> r.name, tsid |-> r.tsid] :
        r \in {q \in RemoteTs : q.pfid = pfid /\ \A o \in RemoteTs : (o.pfid = pfid /\ o.name = q.name) => o.tsid <= q.tsid}}

\* The requests of Api.all_ts: the list of the portfolio, then the metadata of each.
RECURSIVE MetadataRequests(_)
MetadataRequests(tsids) ==
    IF tsids = {} THEN <<>>
    ELSE LET m == CHOOSE x \in tsids : \A y \in tsids : x <= y
         IN  <<Request("metadata", "", m)>> \o MetadataRequests(tsids \ {m})
all_ts_requests(pfid) ==
    <<Request("list", pfid, NoTsid)>> \o MetadataRequests({r.tsid : r \in {q \in RemoteTs : q.pfid = pfid}})

\* Api.find_tsids with the default flags: the exact matches.
find_tsids(pfid, tsname) == {f \in all_ts(pfid) : f.name = tsname}

----------------------------------------------------------------------------
(* Trees of Ts, in the order _fetch_series visits them *)

RECURSIVE Leaves_last_first(_)
Leaves_last_first(tree) ==
    CASE tree.t = "ts" -> <<tree>>
      [] tree.t = "dict" \/ tree.t = "list" ->
            LET F[i \in 0..Len(tree.c)] == IF i = 0 THEN <<>> ELSE Leaves_last_first(tree.c[i]) \o F[i - 1]
            IN  F[Len(tree.c)]
      [] OTHER -> <<>>

RECURSIVE Leaves(_)
Leaves(tree) ==
    CASE tree.t = "ts" -> <<tree>>
      [] tree.t = "dict" \/ tree.t = "list" ->
            LET F[i \in 0..Len(tree.c)] == IF i = 0 THEN <<>> ELSE F[i - 1] \o Leaves(tree.c[i])
            IN  F[Len(tree.c)]
      [] OTHER -> <<>>

\* The tree with leaf number i replaced by ts.
RECURSIVE ReplaceLeaf(_, _, _)
ReplaceLeaf(tree, i, ts) ==
    CASE tree.t = "ts" -> IF i = 1 THEN ts ELSE tree
      [] tree.t = "dict" \/ tree.t = "list" ->
            LET before(k) == Len(Leaves([tree EXCEPT !.c = SubSeq(tree.c, 1, k - 1)]))
            IN  [tree EXCEPT !.c = [k \in DOMAIN tree.c |-> ReplaceLeaf(tree.c[k], i - before(k), ts)]]
      [] OTHER -> tree

----------------------------------------------------------------------------
(* Series trees and portfolio lines *)

STSeries(x) == [t |-> "series", s |-> "", ks |-> <<>>, c |-> <<>>, ser |-> x]
STList(xs) == [t |-> "list", s |-> "", ks |-> <<>>, c |-> xs, ser |-> NoSeries]
STDict(keys, xs) == [t |-> "dict", s |-> "", ks |-> keys, c |-> xs, ser |-> NoSeries]

\* An adjustment function and the argument it was made with.
Adj(f, arg) == [f |-> f, arg |-> arg]

\* pf.tools.righttoleft.index: every timestamp becomes the one before it, the first one
\* moves back by the length of the first period.
righttoleft(idx) == [k \in DOMAIN idx |-> IF k = 1 THEN idx[1] - (idx[2] - idx[1]) ELSE idx[k - 1]]

\* adjustment.makeleft
makeleft_always(s) == [s EXCEPT !.idx = righttoleft(s.idx)]
makeleft(s) ==
    IF s.idx[2] - s.idx[1] <= TwoHours THEN [s EXCEPT !.idx = righttoleft(s.idx)] ELSE s

\* One adjustment applied to a series: fact_convert_to_tz(tz), infer_frequency, makeleft,
\* and an adjustment of one timeseries only (s.tz_convert("+01:00").tz_localize(None)).
ApplyAdj(a, s, tsid) ==
    LET r == CASE a.f = "convert_to_tz" -> [s EXCEPT !.tz = a.arg]
               [] a.f = "infer_frequency" -> [s EXCEPT !.freq = InferFreq(s.idx)]
               [] a.f = "makeleft" -> makeleft(s)
               [] a.f = "cet_to_float" ->
                     IF tsid = a.arg THEN [s EXCEPT !.tz = "", !.idx = [k \in DOMAIN s.idx |-> s.idx[k] + 60]]
                     ELSE s
               [] OTHER -> s
    IN  [r EXCEPT !.adj = Append(s.adj, a.f)]

\* The aftercare function called on a series: its adjustments, in order.
RECURSIVE ApplyChain(_, _, _)
ApplyChain(chain, s, tsid) ==
    IF chain = <<>> THEN s ELSE ApplyChain(Tail(chain), ApplyAdj(Head(chain), s, tsid), tsid)

\* apply_aftercare: the aftercare function (<<>>: none) applied to the series of one Ts.
apply_aftercare(ts, chain) ==
    IF chain # <<>> THEN ApplyChain(chain, ts.series, ts.tsid) ELSE ts.series

\* sum(s) of the series of one dimension: elementwise.
RECURSIVE SumValues(_)
SumValues(ss) ==
    IF Len(ss) = 1 THEN ss[1].v
    ELSE LET rest == SumValues(Tail(ss)) IN [k \in DOMAIN ss[1].v |-> ss[1].v[k] + rest[k]]

\* sum_same_dimensionality: one series per dimension, in the order the dimensions are met.
sum_same_dimensionality_first_of_each(series) ==
    LET first == SelectSeq([i \in DOMAIN series |-> i],
                           LAMBDA i : \A j \in 1..(i - 1) : series[j].dim # series[i].dim)
    IN  [k \in DOMAIN first |-> series[first[k]]]

sum_same_dimensionality(series) ==
    LET first == SelectSeq([i \in DOMAIN series |-> i],
                           LAMBDA i : \A j \in 1..(i - 1) : series[j].dim # series[i].dim)
        group(d) == SelectSeq(series, LAMBDA x : x.dim = d)
    IN  [k \in DOMAIN first |->
            [series[first[k]] EXCEPT !.v = SumValues(group(series[first[k]].dim))]]

\* to_series_tree
RECURSIVE to_series_tree(_, _)
to_series_tree(tree, chain) ==
    CASE tree.t = "dict" -> STDict(tree.ks, [i \in DOMAIN tree.c |-> to_series_tree(tree.c[i], chain)])
      [] tree.t = "ts" -> STSeries(apply_aftercare(tree, chain))
      [] OTHER -> STList([i \in DOMAIN sum_same_dimensionality([k \in DOMAIN tree.c |-> apply_aftercare(tree.c[k], chain)])
                            |-> STSeries(sum_same_dimensionality([k \in DOMAIN tree.c |-> apply_aftercare(tree.c[k], chain)])[i])])

\* A portfolio line: flat (the values of each dimension, <<>> without that dimension)
\* or nested (named children). NonePfl is Python's None, RaisePfl an exception.
NoComps == [d \in Dims |-> <<>>]
Flat(comps) == [t |-> "flat", s |-> "", ks |-> <<>>, c |-> <<>>, comps |-> comps]
Nested(keys, xs) == [t |-> "nested", s |-> "", ks |-> keys, c |-> xs, comps |-> NoComps]
NonePfl == [t |-> "none", s |-> "", ks |-> <<>>, c |-> <<>>, comps |-> NoComps]
RaisePfl(e) == [t |-> "raise", s |-> e, ks |-> <<>>, c |-> <<>>, comps |-> NoComps]

\* PfLine.kind of a flat line
Kind(pfl) ==
    LET has == {d \in Dims : pfl.comps[d] # <<>>}
    IN  CASE has = {"power"} -> "volume"
          [] has = {"price"} -> "price"
          [] has = {"revenue"} -> "revenue"
          [] OTHER -> "complete"

\* child | pf.Q_(0.0, "MW")
WithZeroVolume(pfl) ==
    [pfl EXCEPT !.comps["power"] = [k \in DOMAIN pfl.comps["revenue"] |-> 0]]

\* pf.PfLine(series) of a series or of a list of series of distinct dimensions
FlatPfLine(series) ==
    IF series = <<>> THEN RaisePfl("DataShapeError")
    ELSE Flat([d \in Dims |->
                 IF \E i \in DOMAIN series : series[i].dim = d
                 THEN series[CHOOSE i \in DOMAIN series : series[i].dim = d].v
                 ELSE <<>>])

\* Tenant._pfline
RECURSIVE pfline(_)
pfline(series_tree) ==
    CASE series_tree.t = "dict" ->
            LET children == [i \in DOMAIN series_tree.c |-> pfline(series_tree.c[i])]
                padded == [i \in DOMAIN children |->
                              IF children[i].t = "flat" /\ Kind(children[i]) = "revenue"
                              THEN WithZeroVolume(children[i]) ELSE children[i]]
            IN  IF AnyRaise(children) THEN FirstRaise(children) ELSE Nested(series_tree.ks, padded)
      [] series_tree.t = "series" -> FlatPfLine(<<series_tree.ser>>)
      [] OTHER -> FlatPfLine([i \in DOMAIN series_tree.c |-> series_tree.c[i].ser])

\* a + b of two portfolio lines; None + b is b.
RECURSIVE AddPfl(_, _)
AddPfl(a, b) ==
    CASE a.t = "raise" -> a
      [] b.t = "raise" -> b
      [] a.t = "none" -> b
      [] a.t = "flat" /\ b.t = "flat" ->
            IF \A d \in Dims : (a.comps[d] = <<>>) = (b.comps[d] = <<>>)
            THEN Flat([d \in Dims |-> [k \in DOMAIN a.comps[d] |-> a.comps[d][k] + b.comps[d][k]]])
            ELSE RaisePfl("DataShapeError")
      [] a.t = "nested" /\ b.t = "nested" /\ a.ks = b.ks ->
            LET sums == [i \in DOMAIN a.c |-> AddPfl(a.c[i], b.c[i])]
            IN  IF AnyRaise(sums) THEN FirstRaise(sums) ELSE Nested(a.ks, sums)
      [] OTHER -> RaisePfl("DataShapeError")

\* sum(pfls, None)
RECURSIVE SumPfl(_, _)
SumPfl(pfls, start) ==
    IF pfls = <<>> THEN start ELSE SumPfl(Tail(pfls), AddPfl(start, Head(pfls)))

\* What a Tenant operation returned: a portfolio line, or series trees, or an exception.
NoOut == [status |-> "none", err |-> "", pfl |-> NonePfl, series |-> <<>>]
OutRaise(e) == [NoOut EXCEPT !.status = "raised", !.err = e]
OutPfl(x) == IF x.t = "raise" THEN OutRaise(x.s) ELSE [NoOut EXCEPT !.status = "returned", !.pfl = x]
OutSeries(xs) == [NoOut EXCEPT !.status = "returned", !.series = xs]
OutNone == [NoOut EXCEPT !.status = "returned"]

\* fact_default_aftercare: the three adjustments, in order.
fact_default_aftercare_makeleft_first(tz) == <<Adj("makeleft", ""), Adj("convert_to_tz", tz), Adj("infer_frequency", "")>>
fact_default_aftercare(tz) == <<Adj("convert_to_tz", tz), Adj("infer_frequency", ""), Adj("makeleft", "")>>

NoCall == [op |-> "", pfid |-> "", pflineid |-> "", tsname |-> "", priceid |-> "", output_as_series |-> FALSE,
           chain |-> <<>>]

----------------------------------------------------------------------------
(* The registry: construction and queries *)

NoRet == [op |-> "", a1 |-> "", a2 |-> "", arg |-> NoneV, val |-> NoneV, ids |-> IdSet({})]

\* A call of Api.query: the requests sent, the authentications made, the first response,
\* whether the authentication succeeded, and how the call ended.
NoQuery == [sent |-> 0, auths |-> 0, first |-> "", auth_ok |-> FALSE, result |-> ""]

\* Api.__init__: _retry = True; no query in progress.
ApiNew ==
    /\ retry = TRUE
    /\ qpc = "idle"
    /\ qcall = NoQuery
    /\ hist = <<>>

\* A Tenant at rest, with the cache c.
TenantIdle(c) ==
    /\ pc = "idle"
    /\ call = NoCall
    /\ todo = <<>>
    /\ ts_tree = NoneV
    /\ pos = 0
    /\ ts_trees = <<>>
    /\ out = NoOut
    /\ cache = c
    /\ log = <<>>
    /\ aftercare = fact_default_aftercare(cfg.tz)
    /\ ApiNew

Init ==
    /\ cfg \in Configs
    /\ st = NotConstructed
    /\ ret = NoRet
    /\ TenantIdle({})

\* Structure(**conf)
Construct ==
    /\ st.status = "new"
    /\ st' = Structure_post_init(cfg)
    /\ UNCHANGED <<cfg, ret, tvars>>

CallTstreePfline ==
    /\ st.status = "ok"
    /\ \E pfid \in PfIds, pflineid \in PflineIds :
          ret' = [NoRet EXCEPT !.op = "tstree_pfline", !.a1 = pfid, !.a2 = pflineid,
                               !.val = tstree_pfline(st, pfid, pflineid)]
    /\ UNCHANGED <<cfg, st, tvars>>

CallToOriginalPfids ==
    /\ st.status = "ok"
    /\ \E pfid \in PfIds :
          ret' = [NoRet EXCEPT !.op = "to_original_pfids", !.a1 = pfid,
                               !.val = to_original_pfids(st, Str(pfid), RecursionLimit)]
    /\ UNCHANGED <<cfg, st, tvars>>

CallAvailablePflineids ==
    /\ st.status = "ok"
    /\ \E pfid \in PfIds :
          ret' = [NoRet EXCEPT !.op = "available_pflineids", !.a1 = pfid,
                               !.ids = available_pflineids(st, pfid)]
    /\ UNCHANGED <<cfg, st, tvars>>

CallExpandTree ==
    /\ st.status = "ok"
    /\ \E tree \in ExpandArgs :
          ret' = [NoRet EXCEPT !.op = "expand_tree", !.arg = tree,
                               !.val = expand_tree(st.pflines, tree, RecursionLimit)]
    /\ UNCHANGED <<cfg, st, tvars>>

Next ==
    \/ Construct
    \/ CallTstreePfline
    \/ CallToOriginalPfids
    \/ CallAvailablePflineids
    \/ CallExpandTree

Spec == Init /\ [][Next]_vars

----------------------------------------------------------------------------
(* The Tenant: portfolio_pfl, one step per leaf and per request *)

\* The Structures a Tenant is given.
TenantPflines == {
    Dct(<<"a", "b", "c">>, <<Str("x"), Lst(<<Str("x"), Str("y")>>), Dct(<<"k1", "k2">>, <<Str("a"), Lst(<<Str("y")>>)>>)>>),
    Dct(<<"a", "b", "c">>, <<Lst(<<Str("y"), Str("x"), Str("y")>>), Str("z"), Dct(<<"k1", "k2">>, <<Str("r"), Str("x")>>)>>) }
TenantSynthetics == {
    Dct(<<"S", "T">>, <<Lst(<<Str("A"), Str("P1"), Str("A")>>), Lst(<<Str("S"), Str("P1")>>)>>),
    Dct(<<"S", "T">>, <<Lst(<<Str("P1"), Str("A")>>), Lst(<<Str("A"), Str("A")>>)>>) }
TenantCorrections == {
    EmptyDict,
    Dct(<<"P1", "A">>, <<Dct(<<"b", "d">>, <<NoneV, Str("x")>>), Dct(<<"d">>, <<Lst(<<Str("x"), Str("y")>>)>>)>>) }
TenantConfigs ==
    {Config(Lst(<<Str("A"), Str("P1")>>), sy, pl, co) :
        sy \in TenantSynthetics, pl \in TenantPflines, co \in TenantCorrections}

\* The caches an Api is created with: none, or the one of an earlier session.
InitialCaches == {{}, write_cache({}, "A", all_ts("A"))}

InitTenant ==
    /\ cfg \in TenantConfigs
    /\ st = Structure_post_init(cfg)
    /\ ret = NoRet
    /\ \E c \in InitialCaches : TenantIdle(c)

Leaf == Leaves(ts_tree)[pos]

\* The arguments the operations are called with.
GeneralPfIds == {"A", "M", "S"}
GeneralNames == {"x", "z", "d", "h", "g", "i", "q"}
PriceIds == {"pr1", "pr2", "pr3"}

\* The orders in which a set can be iterated.
Orderings(S) == {f \in [1..Cardinality(S) -> S] : \A i, j \in DOMAIN f : i # j => f[i] # f[j]}

\* update_cache: set([*pfids_1, *pfids_2])
update_cache_pfids(S) ==
    {available_pfids(S, TRUE)[i] : i \in DOMAIN available_pfids(S, TRUE)}
        \cup {Get(S.prices.c[i], "pfid").s : i \in DOMAIN S.prices.c}

\* The operation ends with exception e.
RaiseOut(e) == pc' = "done" /\ out' = OutRaise(e)

\* Tenant.portfolio_pfl is called: the original pfids to visit.
CallPortfolioPfl ==
    /\ pc = "idle"
    /\ \E pfid \in PfIds, pflineid \in PflineIds, output_as_series \in BOOLEAN :
          LET originals == to_original_pfids(st, Str(pfid), RecursionLimit)
          IN  /\ call' = [NoCall EXCEPT !.op = "portfolio_pfl", !.pfid = pfid, !.pflineid = pflineid,
                                         !.output_as_series = output_as_series]
              /\ IF IsRaise(originals)
                 THEN RaiseOut(originals.s) /\ todo' = <<>>
                 ELSE pc' = "loop" /\ out' = NoOut /\ todo' = [i \in DOMAIN originals.c |-> originals.c[i].s]
    /\ log' = <<>> /\ ts_trees' = <<>>
    /\ UNCHANGED qvars
    /\ UNCHANGED <<cfg, st, ret, ts_tree, pos, cache, aftercare>>

\* Tenant.general_pfl is called: the tree is one Ts, not looked up in the structure.
CallGeneralPfl ==
    /\ pc = "idle"
    /\ \E pfid \in GeneralPfIds, tsname \in GeneralNames, output_as_series \in BOOLEAN :
          /\ call' = [NoCall EXCEPT !.op = "general_pfl", !.pfid = pfid, !.tsname = tsname,
                                     !.output_as_series = output_as_series]
          /\ ts_tree' = Ts(pfid, Str(tsname))
    /\ pc' = "fetch" /\ pos' = 1
    /\ out' = NoOut /\ log' = <<>> /\ ts_trees' = <<>> /\ todo' = <<>>
    /\ UNCHANGED qvars
    /\ UNCHANGED <<cfg, st, ret, cache, aftercare>>

\* Tenant.price_pfl is called: the tree of the price.
CallPricePfl ==
    /\ pc = "idle"
    /\ \E priceid \in PriceIds, output_as_series \in BOOLEAN :
          LET tree == tstree_price(st, priceid)
          IN  /\ call' = [NoCall EXCEPT !.op = "price_pfl", !.priceid = priceid,
                                         !.output_as_series = output_as_series]
              /\ IF IsRaise(tree)
                 THEN RaiseOut(tree.s) /\ UNCHANGED <<ts_tree, pos>>
                 ELSE pc' = "fetch" /\ out' = NoOut /\ ts_tree' = tree /\ pos' = 1
    /\ log' = <<>> /\ ts_trees' = <<>> /\ todo' = <<>>
    /\ UNCHANGED qvars
    /\ UNCHANGED <<cfg, st, ret, cache, aftercare>>

\* Tenant.update_cache is called: the set of pfids, in the order the set is iterated.
CallUpdateCache ==
    /\ pc = "idle"
    /\ call' = [NoCall EXCEPT !.op = "update_cache"]
    /\ todo' \in Orderings(update_cache_pfids(st))
    /\ pc' = "update"
    /\ out' = NoOut /\ log' = <<>> /\ ts_trees' = <<>>
    /\ UNCHANGED qvars
    /\ UNCHANGED <<cfg, st, ret, ts_tree, pos, cache, aftercare>>

\* The loop of update_cache: Api.all_ts of the next pfid. ok: the server answers.
UpdateCacheStep ==
    /\ pc = "update" /\ todo # <<>>
    /\ \E ok \in BOOLEAN :
          IF ok
          THEN /\ log' = log \o all_ts_requests(Head(todo))
               /\ cache' = write_cache(cache, Head(todo), all_ts(Head(todo)))
               /\ UNCHANGED <<pc, out>>
          ELSE /\ \E k \in DOMAIN all_ts_requests(Head(todo)) :
                     log' = log \o FailingAt(all_ts_requests(Head(todo)), k)
               /\ RaiseOut("RuntimeError")
               /\ UNCHANGED cache
    /\ todo' = Tail(todo)
    /\ UNCHANGED qvars
    /\ UNCHANGED <<cfg, st, ret, call, ts_tree, pos, ts_trees, aftercare>>

\* update_cache returns (None).
UpdateCacheDone ==
    /\ pc = "update" /\ todo = <<>>
    /\ pc' = "done" /\ out' = OutNone
    /\ UNCHANGED qvars
    /\ UNCHANGED <<cfg, st, ret, call, todo, ts_tree, pos, ts_trees, cache, log, aftercare>>

\* The loop of portfolio_pfl: the tree of the next original pfid.
NextOriginal ==
    /\ pc = "loop" /\ todo # <<>>
    /\ LET tree == tstree_pfline(st, Head(todo), call.pflineid)
       IN  IF IsRaise(tree)
           THEN RaiseOut(tree.s) /\ UNCHANGED <<ts_tree, pos>>
           ELSE pc' = "fetch" /\ ts_tree' = tree /\ pos' = 1 /\ UNCHANGED out
    /\ todo' = Tail(todo)
    /\ UNCHANGED qvars
    /\ UNCHANGED <<cfg, st, ret, call, ts_trees, cache, log, aftercare>>

\* _fetch_series at a Ts without tsid: Api.find_tsid. ok: the server answers.
FindTsid ==
    /\ pc = "fetch" /\ pos <= Len(Leaves(ts_tree)) /\ Leaf.tsid = NoTsid
    /\ IF Leaf.name.t # "str"
       THEN RaiseOut("TypeError") /\ UNCHANGED <<ts_tree, cache, log>>
       ELSE IF read_cache(cache, Leaf.pfid, Leaf.name.s) # NoTsid
       THEN /\ ts_tree' = ReplaceLeaf(ts_tree, pos, [Leaf EXCEPT !.tsid = read_cache(cache, Leaf.pfid, Leaf.name.s)])
            /\ UNCHANGED <<pc, out, cache, log>>
       ELSE \E ok \in BOOLEAN :
               IF ~ok
               THEN /\ RaiseOut("RuntimeError")
                    /\ \E k \in DOMAIN all_ts_requests(Leaf.pfid) :
                          log' = log \o FailingAt(all_ts_requests(Leaf.pfid), k)
                    /\ UNCHANGED <<ts_tree, cache>>
               ELSE LET hits == find_tsids(Leaf.pfid, Leaf.name.s)
                    IN  /\ log' = log \o all_ts_requests(Leaf.pfid)
                        /\ cache' = write_cache(cache, Leaf.pfid, all_ts(Leaf.pfid))
                        /\ IF Cardinality(hits) = 0
                           THEN RaiseOut("ValueError: no timeseries with exact name") /\ UNCHANGED ts_tree
                           ELSE IF Cardinality(hits) > 1
                           THEN RaiseOut("ValueError: multiple timeseries with exact name") /\ UNCHANGED ts_tree
                           ELSE /\ ts_tree' = ReplaceLeaf(ts_tree, pos, [Leaf EXCEPT !.tsid = (CHOOSE h \in hits : TRUE).tsid])
                                /\ UNCHANGED <<pc, out>>
    /\ UNCHANGED qvars
    /\ UNCHANGED <<cfg, st, ret, call, todo, pos, ts_trees, aftercare>>

\* _fetch_series at a Ts with a tsid: Api.series. ok: the server answers.
FetchSeries_skip_failed ==
    /\ pc = "fetch" /\ pos <= Len(Leaves(ts_tree)) /\ Leaf.tsid # NoTsid
    /\ \E ok \in BOOLEAN :
          IF ok
          THEN /\ log' = log \o <<Request("metadata", "", Leaf.tsid), Request("values", "", Leaf.tsid)>>
               /\ ts_tree' = ReplaceLeaf(ts_tree, pos,
                                [Leaf EXCEPT !.series = Series(RemoteOf(Leaf.tsid).dim, RemoteOf(Leaf.tsid).v, RemoteOf(Leaf.tsid).idx)])
          ELSE /\ \E k \in 1..2 :
                     log' = log \o FailingAt(<<Request("metadata", "", Leaf.tsid), Request("values", "", Leaf.tsid)>>, k)
               /\ UNCHANGED ts_tree
    /\ pos' = pos + 1
    /\ UNCHANGED qvars
    /\ UNCHANGED <<cfg, st, ret, pc, out, call, todo, ts_trees, cache, aftercare>>

FetchSeries_forget_id ==
    /\ pc = "fetch" /\ pos <= Len(Leaves(ts_tree)) /\ Leaf.tsid # NoTsid
    /\ \E ok \in BOOLEAN :
          IF ok
          THEN /\ log' = log \o <<Request("metadata", "", Leaf.tsid), Request("values", "", Leaf.tsid)>>
               /\ ts_tree' = ReplaceLeaf(ts_tree, pos,
                                [Leaf EXCEPT !.series = Series(RemoteOf(Leaf.tsid).dim, RemoteOf(Leaf.tsid).v, RemoteOf(Leaf.tsid).idx)])
               /\ pos' = pos + 1
               /\ UNCHANGED <<pc, out>>
          ELSE /\ \E k \in 1..2 :
                     log' = log \o FailingAt(<<Request("metadata", "", Leaf.tsid), Request("values", "", Leaf.tsid)>>, k)
               /\ RaiseOut("RuntimeError")
               /\ ts_tree' = ReplaceLeaf(ts_tree, pos, [Leaf EXCEPT !.tsid = NoTsid])
               /\ UNCHANGED pos
    /\ UNCHANGED qvars
    /\ UNCHANGED <<cfg, st, ret, call, todo, ts_trees, cache, aftercare>>

FetchSeries ==
    /\ pc = "fetch" /\ pos <= Len(Leaves(ts_tree)) /\ Leaf.tsid # NoTsid
    /\ \E ok \in BOOLEAN :
          IF ok
          THEN /\ log' = log \o <<Request("metadata", "", Leaf.tsid), Request("values", "", Leaf.tsid)>>
               /\ ts_tree' = ReplaceLeaf(ts_tree, pos,
                                [Leaf EXCEPT !.series = Series(RemoteOf(Leaf.tsid).dim, RemoteOf(Leaf.tsid).v, RemoteOf(Leaf.tsid).idx)])
               /\ pos' = pos + 1
               /\ UNCHANGED <<pc, out>>
          ELSE /\ \E k \in 1..2 :
                     log' = log \o FailingAt(<<Request("metadata", "", Leaf.tsid), Request("values", "", Leaf.tsid)>>, k)
               /\ RaiseOut("RuntimeError")
               /\ UNCHANGED <<ts_tree, pos>>
    /\ UNCHANGED qvars
    /\ UNCHANGED <<cfg, st, ret, call, todo, ts_trees, cache, aftercare>>

\* _fetch_series returns: the tree is kept.
FetchDone ==
    /\ pc = "fetch" /\ pos > Len(Leaves(ts_tree))
    /\ ts_trees' = Append(ts_trees, ts_tree)
    /\ pc' = "loop"
    /\ UNCHANGED qvars
    /\ UNCHANGED <<cfg, st, ret, call, todo, ts_tree, pos, out, cache, log, aftercare>>

\* The end of portfolio_pfl: the series trees, or the sum of their portfolio lines.
portfolio_pfl_result(trees, chain, output_as_series) ==
    LET series_trees == [i \in DOMAIN trees |-> to_series_tree(trees[i], chain)]
    IN  IF output_as_series THEN OutSeries(series_trees)
        ELSE OutPfl(SumPfl([i \in DOMAIN series_trees |-> pfline(series_trees[i])], NonePfl))

\* The end of general_pfl and of price_pfl: the series tree, or its portfolio line.
single_pfl_result(tree, chain, output_as_series) ==
    LET series_tree == to_series_tree(tree, chain)
    IN  IF output_as_series THEN OutSeries(<<series_tree>>) ELSE OutPfl(pfline(series_tree))

Finish ==
    /\ pc = "loop" /\ todo = <<>>
    /\ out' = IF call.op = "portfolio_pfl"
              THEN portfolio_pfl_result(ts_trees, aftercare, call.output_as_series)
              ELSE single_pfl_result(ts_trees[1], aftercare, call.output_as_series)
    /\ pc' = "done"
    /\ UNCHANGED qvars
    /\ UNCHANGED <<cfg, st, ret, call, todo, ts_tree, pos, ts_trees, cache, log, aftercare>>

\* The caller has the result; the trees of the request are dropped.
Return ==
    /\ pc = "done"
    /\ pc' = "idle" /\ call' = NoCall /\ out' = NoOut /\ log' = <<>>
    /\ todo' = <<>> /\ ts_tree' = NoneV /\ pos' = 0 /\ ts_trees' = <<>>
    /\ UNCHANGED qvars
    /\ UNCHANGED <<cfg, st, ret, cache, aftercare>>

NextTenant ==
    \/ CallPortfolioPfl
    \/ CallGeneralPfl
    \/ CallPricePfl
    \/ CallUpdateCache
    \/ UpdateCacheStep
    \/ UpdateCacheDone
    \/ NextOriginal
    \/ FindTsid
    \/ FetchSeries
    \/ FetchDone
    \/ Finish
    \/ Return

SpecTenant == InitTenant /\ [][NextTenant]_vars

----------------------------------------------------------------------------
(* The Tenant: its aftercare function *)

\* The aftercare functions a user sets, as the adjustments they make: none (None), one
\* that adjusts timeseries 8 only, the default, and one followed by makeleft.
Chains == {<<>>,
           <<Adj("cet_to_float", 8)>>,
           <<Adj("cet_to_float", 8), Adj("makeleft", "")>>,
           <<Adj("convert_to_tz", "Europe/Berlin"), Adj("infer_frequency", ""), Adj("makeleft", "")>>}

InitAftercare ==
    /\ cfg = CHOOSE c \in TenantConfigs : TRUE
    /\ st = Structure_post_init(cfg)
    /\ ret = NoRet
    /\ TenantIdle({})

\* tenant.aftercare = f
SetAftercare_keep_old ==
    /\ pc = "idle"
    /\ \E chain \in Chains : call' = [NoCall EXCEPT !.op = "set_aftercare", !.chain = chain]
    /\ pc' = "done" /\ out' = OutNone
    /\ UNCHANGED qvars
    /\ UNCHANGED <<cfg, st, ret, todo, ts_tree, pos, ts_trees, cache, log, aftercare>>

SetAftercare ==
    /\ pc = "idle"
    /\ \E chain \in Chains :
          /\ call' = [NoCall EXCEPT !.op = "set_aftercare", !.chain = chain]
          /\ aftercare' = chain
    /\ pc' = "done" /\ out' = OutNone
    /\ UNCHANGED qvars
    /\ UNCHANGED <<cfg, st, ret, todo, ts_tree, pos, ts_trees, cache, log>>

\* tenant.prepend_aftercare(f), tenant.append_aftercare(f): Tenant has no such attribute.
CallMissingMethod(name) ==
    /\ pc = "idle"
    /\ \E chain \in Chains \ {<<>>} : call' = [NoCall EXCEPT !.op = name, !.chain = chain]
    /\ pc' = "done" /\ out' = OutRaise("AttributeError")
    /\ UNCHANGED qvars
    /\ UNCHANGED <<cfg, st, ret, todo, ts_tree, pos, ts_trees, cache, log, aftercare>>

PrependAftercare == CallMissingMethod("prepend_aftercare")
AppendAftercare == CallMissingMethod("append_aftercare")

NextAftercare ==
    \/ SetAftercare
    \/ PrependAftercare
    \/ AppendAftercare
    \/ CallGeneralPfl
    \/ FindTsid
    \/ FetchSeries
    \/ FetchDone
    \/ Finish
    \/ Return

SpecAftercare == InitAftercare /\ [][NextAftercare]_vars

----------------------------------------------------------------------------
(* Api.query: one step per request and per authentication *)

\* How many calls of Api.query a behaviour makes.
MaxCalls == 3

\* What access.request(url) gives: a response with its status code, or ConnectionError.
Responses == {"200", "401", "500", "ConnectionError"}

InitQuery ==
    /\ cfg = CHOOSE c \in TenantConfigs : TRUE
    /\ st = Structure_post_init(cfg)
    /\ ret = NoRet
    /\ TenantIdle({})

\* Api.query(url) is called.
QueryCall ==
    /\ qpc = "idle" /\ Len(hist) < MaxCalls
    /\ qpc' = "request" /\ qcall' = NoQuery
    /\ UNCHANGED <<cfg, st, ret, ovars, retry, hist>>

\* The end of the call with result r.
QueryEnds(r, sent, first) ==
    /\ qpc' = "done"
    /\ qcall' = [qcall EXCEPT !.sent = sent, !.first = first, !.result = r]

\* self.access.request(url) and the branch on the response.
QueryRequest_retry_always ==
    /\ qpc = "request"
    /\ \E response \in Responses :
          LET sent == qcall.sent + 1
              first == IF qcall.sent = 0 THEN response ELSE qcall.first
          IN  CASE response = "ConnectionError" -> QueryEnds("ConnectionError", sent, first) /\ UNCHANGED retry
                [] response = "200" -> QueryEnds("ok", sent, first) /\ retry' = TRUE
                [] OTHER -> /\ retry' = FALSE
                            /\ qpc' = "authenticate"
                            /\ qcall' = [qcall EXCEPT !.sent = sent, !.first = first]
    /\ UNCHANGED <<cfg, st, ret, ovars, hist>>

QueryRequest ==
    /\ qpc = "request"
    /\ \E response \in Responses :
          LET sent == qcall.sent + 1
              first == IF qcall.sent = 0 THEN response ELSE qcall.first
          IN  CASE response = "ConnectionError" -> QueryEnds("ConnectionError", sent, first) /\ UNCHANGED retry
                [] response = "200" -> QueryEnds("ok", sent, first) /\ retry' = TRUE
                [] response \notin {"200", "ConnectionError"} /\ retry = TRUE ->
                      /\ retry' = FALSE
                      /\ qpc' = "authenticate"
                      /\ qcall' = [qcall EXCEPT !.sent = sent, !.first = first]
                [] OTHER -> QueryEnds("RuntimeError", sent, first) /\ UNCHANGED retry
    /\ UNCHANGED <<cfg, st, ret, ovars, hist>>

\* self.access.authenticate(), then the retry: self.query(url).
QueryAuthenticate ==
    /\ qpc = "authenticate"
    /\ \E ok \in BOOLEAN :
          IF ok THEN qpc' = "request" /\ qcall' = [qcall EXCEPT !.auths = qcall.auths + 1, !.auth_ok = TRUE]
          ELSE qpc' = "done" /\ qcall' = [qcall EXCEPT !.auths = qcall.auths + 1, !.result = "PermissionError"]
    /\ UNCHANGED <<cfg, st, ret, ovars, retry, hist>>

\* The call returns or raises.
QueryReturn ==
    /\ qpc = "done"
    /\ hist' = Append(hist, qcall)
    /\ qpc' = "idle" /\ qcall' = NoQuery
    /\ UNCHANGED <<cfg, st, ret, ovars, retry>>

NextQuery ==
    \/ QueryCall
    \/ QueryRequest
    \/ QueryAuthenticate
    \/ QueryReturn

SpecQuery == InitQuery /\ [][NextQuery]_vars

\* Api.query with its steps taken: a request is answered or raises, the authentication
\* returns or raises, the call returns to its caller.
SpecQueryLive ==
    /\ InitQuery
    /\ [][NextQuery]_vars
    /\ WF_vars(QueryRequest)
    /\ WF_vars(QueryAuthenticate)
    /\ WF_vars(QueryReturn)

----------------------------------------------------------------------------
(* Properties of the registry *)

IsOriginal(pfid) == \E i \in DOMAIN st.original.c : st.original.c[i].s = pfid
IsSynthetic(pfid) == ~IsOriginal(pfid) /\ pfid \in Keys(st.synthetic)
\* corrections[p][l], or Absent when there is no such entry
CorrectionOf(p, l) == GetOr(GetOr(st.corrections, p, EmptyDict), l, Absent)
IsNotFound(v) == v = Raise("ValueError: line does not exist")
\* The plain strings at the leaves of a name tree.
RECURSIVE NamesIn(_)
NamesIn(tree) ==
    CASE tree.t = "str" -> {tree.s}
      [] tree.t \in {"list", "dict"} -> UNION {NamesIn(tree.c[i]) : i \in DOMAIN tree.c}
      [] OTHER -> {}

\* C1: tstree_pfline(p, l) for an original p: an absent-marker correction gives a
\* not-found error; else a correction tree gives the tree built from the correction;
\* else a template l gives the tree built from the template; else a not-found error.
\* Without corrections and with template l a single name n, the result is the single
\* leaf Ts(p, n).
C1_ResolutionOrder ==
    (ret.op = "tstree_pfline" /\ IsOriginal(ret.a1)) =>
        LET p == ret.a1
            l == ret.a2
            corr == CorrectionOf(p, l)
        IN  /\ CASE corr.t = "none" -> IsNotFound(ret.val)
                 [] corr.t \in {"str", "list", "dict"} -> ret.val = create_tstree(p, corr)
                 [] HasKey(st.pflines, l) -> ret.val = create_tstree(p, Get(st.pflines, l))
                 [] OTHER -> IsNotFound(ret.val)
            /\ (st.corrections = EmptyDict /\ HasKey(cfg.pflines, l)
                  /\ Get(cfg.pflines, l).t = "str" /\ ~HasKey(cfg.pflines, Get(cfg.pflines, l).s))
                => ret.val = Lst(<<Ts(p, Get(cfg.pflines, l))>>)

\* C1, seen on the code: the resolution order holds for every correction but the
\* string "notfound", which tstree_pfline takes for "no correction".
C1_Witness ==
    /\ ret.op = "tstree_pfline" /\ IsOriginal(ret.a1)
    /\ CorrectionOf(ret.a1, ret.a2) = Str("notfound")
    /\ ret.val # create_tstree(ret.a1, Str("notfound"))

\* C2: available_pflineids(s) of a synthetic s is the intersection of
\* available_pflineids(o) over the o in to_original_pfids(s): a line is available on s
\* exactly when it is available on every constituent.
C2_SyntheticIsIntersection ==
    (ret.op = "available_pflineids" /\ IsSynthetic(ret.a1)) =>
        LET originals == to_original_pfids(st, Str(ret.a1), RecursionLimit)
        IN  ~IsRaise(originals) =>
               /\ ret.ids.err = ""
               /\ \A l \in PflineIds :
                     l \in ret.ids.ids <=>
                        \A i \in DOMAIN originals.c : l \in available_pflineids(st, originals.c[i].s).ids

\* C2, seen on the code: with a list of original ids the intersection is returned.
C2_Witness ==
    /\ ret.op = "available_pflineids" /\ ret.a1 = "S" /\ IsSynthetic("S")
    /\ Get(st.synthetic, "S") = Lst(<<Str("A"), Str("P1"), Str("A")>>)
    /\ CorrectionOf("P1", "b") = NoneV /\ CorrectionOf("P1", "d").t = "str" /\ CorrectionOf("A", "d").t = "list"
    /\ ret.ids = IdSet({"a", "d"})

\* C3: available_pflineids(p) of an original p is the template ids, minus the lines
\* whose correction is the absent marker, plus the lines whose correction is a tree;
\* it raises nothing.
C3_OriginalAvailable ==
    (ret.op = "available_pflineids" /\ IsOriginal(ret.a1)) =>
        /\ ret.ids.err = ""
        /\ ret.ids.ids = (Keys(st.pflines) \ {l \in PflineIds : CorrectionOf(ret.a1, l).t = "none"})
                            \cup {l \in PflineIds : CorrectionOf(ret.a1, l).t \in {"str", "list", "dict"}}

C3_Witness ==
    /\ ret.op = "available_pflineids" /\ IsOriginal(ret.a1)
    /\ \E l \in Keys(st.pflines) : CorrectionOf(ret.a1, l).t = "none" /\ l \notin ret.ids.ids
    /\ \E l \in PflineIds \ Keys(st.pflines) : CorrectionOf(ret.a1, l).t = "list" /\ l \in ret.ids.ids

\* The depth-first, left-to-right flattening of a reference down to original ids.
RECURSIVE FlattenRef(_, _)
FlattenRef(ref, fuel) ==
    IF fuel = 0 THEN <<>>
    ELSE CASE ref.t = "str" ->
                IF IsOriginal(ref.s) THEN <<ref>>
                ELSE IF HasKey(st.synthetic, ref.s) THEN FlattenRef(Get(st.synthetic, ref.s), fuel - 1)
                ELSE <<>>
           [] ref.t = "list" ->
                IF ref.c = <<>> THEN <<>>
                ELSE FlattenRef(Head(ref.c), fuel - 1) \o FlattenRef(Lst(Tail(ref.c)), fuel)
           [] OTHER -> <<>>

\* C4: to_original_pfids(p) is [p] for an original p; for a synthetic p it is the
\* depth-first flattening of p's reference, duplicates kept, every element an original
\* id; for any other id it fails with a not-found error.
C4_ToOriginalPfids ==
    ret.op = "to_original_pfids" =>
        CASE IsOriginal(ret.a1) -> ret.val = Lst(<<Str(ret.a1)>>)
          [] IsSynthetic(ret.a1) ->
                /\ ret.val = Lst(FlattenRef(Str(ret.a1), RecursionLimit))
                /\ \A i \in DOMAIN ret.val.c : IsOriginal(ret.val.c[i].s)
          [] OTHER -> ret.val = Raise("ValueError: could not find portfolio id")

\* C4, seen on the code: a synthetic portfolio declared as a list of ids is flattened
\* depth-first with its duplicates.
C4_Witness ==
    /\ ret.op = "to_original_pfids" /\ ret.a1 = "T"
    /\ HasKey(st.synthetic, "S") /\ Get(st.synthetic, "S") = Lst(<<Str("A"), Str("P1"), Str("A")>>)
    /\ ret.val = Lst(<<Str("A"), Str("P1"), Str("A"), Str("P1")>>)

\* C5: expanding an expanded tree changes nothing, with the templates as declared
\* (the expansion at construction) and with the templates of the constructed Structure.
C5_ExpandIdempotent ==
    /\ st.status = "ok" =>
          \A l \in Keys(st.pflines) :
             expand_tree(cfg.pflines, Get(st.pflines, l), RecursionLimit) = Get(st.pflines, l)
    /\ ret.op = "expand_tree" =>
          /\ ~IsRaise(ret.val)
          /\ expand_tree(st.pflines, ret.val, RecursionLimit) = ret.val

C5_Witness ==
    /\ ret.op = "expand_tree" /\ ret.arg = Str("a") /\ ret.val # ret.arg
    /\ Get(cfg.pflines, "a") = Str("b") /\ HasKey(cfg.pflines, "c") /\ Get(cfg.pflines, "b") = Str("c")

\* The declared tree and its expansion agree: a plain string naming a line is replaced
\* by that line's template of the constructed Structure, other strings are kept, dict
\* keys and list lengths are kept.
RECURSIVE ExpandedFrom(_, _)
ExpandedFrom(declared, expanded) ==
    CASE declared.t = "str" ->
            IF HasKey(st.pflines, declared.s) THEN expanded = Get(st.pflines, declared.s)
            ELSE expanded = declared
      [] declared.t = "dict" ->
            /\ expanded.t = "dict" /\ expanded.ks = declared.ks
            /\ \A i \in DOMAIN declared.c : ExpandedFrom(declared.c[i], expanded.c[i])
      [] declared.t = "list" ->
            /\ expanded.t = "list" /\ Len(expanded.c) = Len(declared.c)
            /\ \A i \in DOMAIN declared.c : ExpandedFrom(declared.c[i], expanded.c[i])
      [] OTHER -> expanded = declared

\* C6: in a constructed Structure, a template declared as a plain string naming a line
\* equals that line's expanded template, and so does every dict child, at any depth,
\* declared as such a string; dict keys and list structure are kept.
C6_TemplatesExpanded ==
    st.status = "ok" =>
        /\ Keys(st.pflines) = Keys(cfg.pflines)
        /\ \A l \in Keys(cfg.pflines) : ExpandedFrom(Get(cfg.pflines, l), Get(st.pflines, l))

C6_Witness ==
    /\ st.status = "ok"
    /\ HasKey(cfg.pflines, "c")
    /\ Get(cfg.pflines, "a") = Dct(<<"k1", "k2">>, <<Dct(<<"k3">>, <<Str("b")>>), Lst(<<Str("y"), Str("x")>>)>>)
    /\ Get(cfg.pflines, "b") = Dct(<<"k3">>, <<Str("c")>>)
    /\ Get(Get(Get(st.pflines, "a"), "k1"), "k3") = Dct(<<"k3">>, <<Lst(<<Str("y")>>)>>)

\* C7: a correction tree is returned expanded against the templates: every plain string
\* of the correction that names a line appears replaced by that line's expanded template.
C7_CorrectionExpanded ==
    (ret.op = "tstree_pfline" /\ IsOriginal(ret.a1)) =>
        LET corr == CorrectionOf(ret.a1, ret.a2)
        IN  (corr.t \in {"str", "list", "dict"} /\ NamesIn(corr) \cap Keys(st.pflines) # {})
               => ret.val = create_tstree(ret.a1, expand_tree(st.pflines, corr, RecursionLimit))

\* Every value that is no list, at any depth of a reference.
RECURSIVE AtomsOf(_)
AtomsOf(ref) ==
    IF ref.t = "list" THEN UNION {AtomsOf(ref.c[i]) : i \in DOMAIN ref.c} ELSE {ref}

\* Some synthetic reference holds an undeclared id or a value that is no str and no list.
BadReference ==
    \E i \in DOMAIN cfg.synthetic.c : \E x \in AtomsOf(cfg.synthetic.c[i]) :
        \/ x.t # "str"
        \/ /\ x.s \notin Keys(cfg.synthetic)
           /\ \A k \in DOMAIN cfg.original.c : cfg.original.c[k].s # x.s

CorrectionsWellFormed(original, pflines, corrections) ==
    /\ \A p \in Keys(corrections) : \E k \in DOMAIN original.c : original.c[k].s = p
    /\ \A p \in Keys(corrections) : \A l \in Keys(Get(corrections, p)) :
          Get(Get(corrections, p), l) = NoneV => l \in Keys(pflines)

\* C9: a constructed Structure has corrections for original portfolios only and absent
\* markers for template lines only; a configuration that breaks either is not constructed.
C9_CorrectionsValidated ==
    /\ st.status = "ok" => CorrectionsWellFormed(st.original, st.pflines, st.corrections)
    /\ (st.status # "new" /\ ~CorrectionsWellFormed(cfg.original, cfg.pflines, cfg.corrections))
          => st.status = "raised"

C9_Witness ==
    /\ st.status = "raised" /\ st.err = "AssertionError"
    /\ cfg.corrections = Dct(<<"A">>, <<Dct(<<"d">>, <<NoneV>>)>>)

\* C21: tstree_pfline(p, l) raises the ValueError of the pfid check, and gives no tree,
\* for every p that is not in portfolios.original, synthetic ids included, whatever the
\* line l and the corrections are.
C21_OriginalOnly ==
    (ret.op = "tstree_pfline" /\ ~IsOriginal(ret.a1)) =>
        ret.val = Raise("ValueError: pfid must be one of")

\* A synthetic portfolio is asked for a line that is a template and that each of its
\* constituents has.
C21_Witness ==
    /\ ret.op = "tstree_pfline" /\ IsSynthetic(ret.a1)
    /\ HasKey(st.pflines, ret.a2)
    /\ ret.a2 \in available_pflineids(st, ret.a1).ids
    /\ IsRaise(ret.val)

\* The portfolio id is declared: original, or a key of synthetic.
IsDeclared(pfid) == IsOriginal(pfid) \/ pfid \in Keys(st.synthetic)

\* C25: in a constructed Structure, to_original_pfids(p) and available_pflineids(p) of a
\* declared p come to an end: the recursion is not cut off by the recursion limit.
C25_Terminates ==
    (st.status = "ok" /\ IsDeclared(ret.a1)) =>
        /\ ret.op = "to_original_pfids" => ret.val # Raise("RecursionError")
        /\ ret.op = "available_pflineids" => ret.ids.err # "RecursionError"

\* C25, seen on the code: a synthetic portfolio that refers to another synthetic
\* portfolio, without a cycle, is resolved.
C25_Witness ==
    /\ ret.op = "to_original_pfids" /\ ret.a1 = "T" /\ IsSynthetic("T")
    /\ Get(st.synthetic, "T") = Str("S") /\ Get(st.synthetic, "S").t = "list"
    /\ ~IsRaise(ret.val) /\ ret.val.c # <<>>

\* C26: in a constructed Structure and for a synthetic s whose references do not form a
\* cycle, to_original_pfids(s) returns a list of original ids and available_pflineids(s)
\* returns a set; neither raises.
C26_ReferenceShapes ==
    (st.status = "ok" /\ IsSynthetic(ret.a1)) =>
        /\ (ret.op = "to_original_pfids" /\ ret.val # Raise("RecursionError")) =>
              /\ ret.val.t = "list"
              /\ \A i \in DOMAIN ret.val.c : IsOriginal(ret.val.c[i].s)
        /\ (ret.op = "available_pflineids" /\ ret.ids.err # "RecursionError") => ret.ids.err = ""

\* C26, seen on the code: a reference that is the single id string "A" is resolved.
C26_Witness ==
    /\ ret.op = "to_original_pfids" /\ IsSynthetic(ret.a1)
    /\ Get(st.synthetic, ret.a1) = Str("A")
    /\ ret.val = Lst(<<Str("A")>>)

\* C27: for an original p, tstree_pfline(p, l) returns a tree exactly when l is in
\* available_pflineids(p).
C27_TreeIffAvailable ==
    (ret.op = "tstree_pfline" /\ IsOriginal(ret.a1)) =>
        (ret.val.t \in {"list", "dict"} <=> ret.a2 \in available_pflineids(st, ret.a1).ids)

\* C27, seen on the code: a line that only a correction gives to the portfolio has a
\* tree, and a template line that a correction takes from it has none.
C27_Witness ==
    /\ ret.op = "tstree_pfline" /\ IsOriginal(ret.a1)
    /\ ~HasKey(st.pflines, ret.a2) /\ CorrectionOf(ret.a1, ret.a2).t = "list"
    /\ ret.val.t = "list" /\ ret.a2 \in available_pflineids(st, ret.a1).ids
    /\ \E l \in Keys(st.pflines) :
          CorrectionOf(ret.a1, l) = NoneV /\ l \notin available_pflineids(st, ret.a1).ids

\* The name of every leaf of the tree is one string.
NamesAreStrings(tree) == \A i \in DOMAIN Leaves(tree) : Leaves(tree)[i].name.t = "str"

\* C28: every leaf of a tree that tstree_pfline returns has one string as its name.
C28_LeafNamesAreStrings ==
    (ret.op = "tstree_pfline" /\ ~IsRaise(ret.val)) => NamesAreStrings(ret.val)

\* C28, seen on the code: the tree of a dict template whose values name other templates
\* has strings at its leaves.
C28_Witness ==
    /\ ret.op = "tstree_pfline" /\ HasKey(cfg.pflines, ret.a2) /\ CorrectionOf(ret.a1, ret.a2) = Absent
    /\ Get(cfg.pflines, ret.a2) = Dct(<<"k1">>, <<Str("b")>>)
    /\ HasKey(cfg.pflines, "b") /\ Get(cfg.pflines, "b").t = "list"
    /\ ret.val.t = "dict" /\ Len(Leaves(ret.val)) = 2 /\ NamesAreStrings(ret.val)

----------------------------------------------------------------------------
(* Properties of the Tenant *)

\* The tree with every Ts filled with what the server holds under its name.
RECURSIVE RemoteFilled(_)
RemoteFilled(tree) ==
    CASE tree.t = "ts" ->
            LET r == RemoteOf((CHOOSE f \in all_ts(tree.pfid) : f.name = tree.name.s).tsid)
            IN  [tree EXCEPT !.tsid = r.tsid, !.series = Series(r.dim, r.v, r.idx)]
      [] tree.t \in {"dict", "list"} -> [tree EXCEPT !.c = [i \in DOMAIN tree.c |-> RemoteFilled(tree.c[i])]]
      [] OTHER -> tree

\* The portfolio line of one original portfolio, aggregated on its own.
ConstituentPfl(o) ==
    pfline(to_series_tree(RemoteFilled(tstree_pfline(st, o, call.pflineid)), aftercare))

\* How often o occurs in the sequence os of str values.
Occurrences(o, os) == Cardinality({i \in DOMAIN os : os[i].s = o})

\* C10: portfolio_pfl(p, l) returns the sum over to_original_pfids(p), every duplicate
\* counted as often as it occurs, of the portfolio lines aggregated from
\* tstree_pfline(o, l) of each constituent o on its own; for an original p it is the
\* portfolio line of p itself.
C10_SumOverConstituents ==
    (pc = "done" /\ call.op = "portfolio_pfl" /\ out.status = "returned" /\ ~call.output_as_series) =>
        LET os == FlattenRef(Str(call.pfid), RecursionLimit)
        IN  /\ out.pfl = SumPfl([i \in DOMAIN os |-> ConstituentPfl(os[i].s)], NonePfl)
            /\ IsOriginal(call.pfid) => out.pfl = ConstituentPfl(call.pfid)
            /\ out.pfl.t = "flat" =>
                  \A d \in Dims : \A k \in DOMAIN out.pfl.comps[d] :
                      out.pfl.comps[d][k] =
                          Occurrences("A", os) * (IF Occurrences("A", os) > 0 THEN ConstituentPfl("A").comps[d][k] ELSE 0)
                        + Occurrences("P1", os) * (IF Occurrences("P1", os) > 0 THEN ConstituentPfl("P1").comps[d][k] ELSE 0)

C10_Witness ==
    /\ pc = "done" /\ call.op = "portfolio_pfl" /\ out.status = "returned" /\ ~call.output_as_series
    /\ call.pfid = "S" /\ call.pflineid = "a"
    /\ Get(st.synthetic, "S") = Lst(<<Str("A"), Str("P1"), Str("A")>>)
    /\ Get(st.pflines, "a") = Str("x")
    /\ out.pfl = Flat([d \in Dims |-> IF d = "power" THEN <<21, 42, 63>> ELSE <<>>])

\* What an operation in series-only mode returned for tree number i: a sequence of series.
ResultSeries(i) ==
    IF out.series[i].t = "series" THEN <<out.series[i].ser>>
    ELSE [k \in DOMAIN out.series[i].c |-> out.series[i].c[k].ser]

\* Value number j of the sum of the series of dimension d held by the leaves.
RECURSIVE LeafSum(_, _, _)
LeafSum(leaves, d, j) ==
    IF leaves = <<>> THEN 0
    ELSE (IF Head(leaves).series.dim = d THEN Head(leaves).series.v[j] ELSE 0) + LeafSum(Tail(leaves), d, j)

\* The list tree with its members in the order f.
Shuffled(tree, f) == IF tree.t = "list" THEN [tree EXCEPT !.c = [k \in DOMAIN f |-> tree.c[f[k]]]] ELSE tree

SeriesSet(series_tree) ==
    IF series_tree.t = "series" THEN {series_tree.ser}
    ELSE {series_tree.c[k].ser : k \in DOMAIN series_tree.c}

\* C11: for a tree that is one Ts or a list of Ts, the series tree holds exactly one series
\* for every dimension present among the leaves, with as values the elementwise sum of the
\* leaf series of that dimension; the same series, and the same portfolio line, result
\* from the list in any other order.
C11_SumPerDimension ==
    (pc = "done" /\ out.status = "returned" /\ call.output_as_series /\ call.op # "update_cache") =>
        \A i \in DOMAIN ts_trees :
            ts_trees[i].t \in {"ts", "list"} =>
                LET leaves == Leaves(ts_trees[i])
                    res == ResultSeries(i)
                IN  /\ \A d \in Dims :
                          Cardinality({k \in DOMAIN res : res[k].dim = d})
                              = IF \E l \in DOMAIN leaves : leaves[l].series.dim = d THEN 1 ELSE 0
                    /\ \A k \in DOMAIN res :
                          /\ res[k].dim \in Dims
                          /\ DOMAIN res[k].v = 1..3
                          /\ \A j \in 1..3 : res[k].v[j] = LeafSum(leaves, res[k].dim, j)
                    /\ \A f \in (IF ts_trees[i].t = "list" THEN Orderings(DOMAIN ts_trees[i].c) ELSE {<<>>}) :
                          /\ SeriesSet(to_series_tree(Shuffled(ts_trees[i], f), aftercare)) = SeriesSet(out.series[i])
                          /\ pfline(to_series_tree(Shuffled(ts_trees[i], f), aftercare)) = pfline(out.series[i])

\* Two power leaves <<10, 20, 30>> and <<5, 5, 5>> gave one power series <<15, 25, 35>>.
C11_Witness ==
    /\ pc = "done" /\ out.status = "returned" /\ call.output_as_series
    /\ call.op = "portfolio_pfl" /\ call.pfid = "A"
    /\ Len(ts_trees) = 1 /\ ts_trees[1].t = "list" /\ Len(ts_trees[1].c) = 2
    /\ ts_trees[1].c[1].series.v = <<10, 20, 30>> /\ ts_trees[1].c[2].series.v = <<5, 5, 5>>
    /\ Len(ResultSeries(1)) = 1
    /\ ResultSeries(1)[1].dim = "power" /\ ResultSeries(1)[1].v = <<15, 25, 35>>

\* The flat line with a volume of zero added to its one component.
ZeroVolumePadded(pfl) ==
    LET d == CHOOSE x \in Dims : pfl.comps[x] # <<>>
    IN  [pfl EXCEPT !.comps["power"] = [k \in DOMAIN pfl.comps[d] |-> 0]]

\* The children of every dict of the series tree were padded when pfl was built.
RECURSIVE BranchPadded(_, _)
BranchPadded(series_tree, pfl) ==
    series_tree.t = "dict" =>
        /\ pfl.t = "nested" /\ pfl.ks = series_tree.ks
        /\ \A i \in DOMAIN series_tree.c :
              LET child == pfline(series_tree.c[i])
              IN  IF child.t = "flat" /\ Kind(child) \in {"revenue", "price"}
                  THEN pfl.c[i] = ZeroVolumePadded(child)
                  ELSE pfl.c[i] = child /\ BranchPadded(series_tree.c[i], child)

\* C12: the portfolio line of a dict holds, for every child that is revenue-only or
\* price-only, the child's portfolio line with a zero volume added, and every other
\* child's portfolio line unchanged.
C12_BranchPadding ==
    (pc = "done" /\ out.status = "returned" /\ ~call.output_as_series /\ Len(ts_trees) = 1) =>
        BranchPadded(to_series_tree(ts_trees[1], aftercare), out.pfl)

\* Seen on the code: a revenue-only child is padded, a volume child is not.
C12_Witness ==
    /\ pc = "done" /\ out.status = "returned" /\ ~call.output_as_series /\ Len(ts_trees) = 1
    /\ out.pfl.t = "nested" /\ Len(out.pfl.c) = 2
    /\ out.pfl.c[1].comps = [d \in Dims |-> CASE d = "revenue" -> <<6, 6, 6>> [] d = "power" -> <<0, 0, 0>> [] OTHER -> <<>>]
    /\ out.pfl.c[2].comps = [d \in Dims |-> IF d = "power" THEN <<10, 20, 30>> ELSE <<>>]

\* The timeseries of portfolio pfid the server holds under exactly the name tsname.
ExactMatches(pfid, tsname) == {r \in RemoteTs : r.pfid = pfid /\ r.name = tsname}

\* C14: when find_tsid does not find the name in the cache and the server answers, the
\* number of timeseries of the portfolio with exactly that name decides: none raises the
\* not-found error, one gives the leaf that timeseries' id, several raise the
\* multiple-matches error, the leaf stays without id and the operation ends.
C14_ResolveByCount ==
    [][(/\ pc = "fetch" /\ pos <= Len(Leaves(ts_tree))
        /\ Leaf.tsid = NoTsid /\ Leaf.name.t = "str"
        /\ read_cache(cache, Leaf.pfid, Leaf.name.s) = NoTsid
        /\ log' # log
        /\ out'.err # "RuntimeError")
       => LET hits == ExactMatches(Leaf.pfid, Leaf.name.s)
          IN  CASE Cardinality(hits) = 0 ->
                     pc' = "done" /\ out' = OutRaise("ValueError: no timeseries with exact name")
                [] Cardinality(hits) = 1 ->
                     pc' = "fetch" /\ out' = out /\ Leaves(ts_tree')[pos].tsid = (CHOOSE r \in hits : TRUE).tsid
                [] OTHER ->
                     /\ pc' = "done" /\ out' = OutRaise("ValueError: multiple timeseries with exact name")
                     /\ Leaves(ts_tree')[pos].tsid = NoTsid
      ]_vars

\* Seen on the code: a name the portfolio does not hold ends the operation with not-found.
C14_Witness ==
    /\ pc = "done" /\ call.op = "general_pfl" /\ call.pfid = "A" /\ call.tsname = "q"
    /\ out = OutRaise("ValueError: no timeseries with exact name")
    /\ \E i \in DOMAIN log : log[i].op = "list" /\ log[i].pfid = "A"

FetchingOp == call.op \in {"general_pfl", "portfolio_pfl", "price_pfl"}

\* The leaf has not been resolved or fetched.
Untouched(ts) == ts.tsid = NoTsid /\ ts.series = NoSeries

\* C15: in general_pfl, portfolio_pfl and price_pfl a request that fails is the last one
\* the operation sends and the operation has raised; an operation that has raised
\* returned no portfolio line and no series, the leaf it failed at holds no series, the
\* leaves after it are untouched, and nothing follows but the caller receiving the error.
C15_FailureAborts ==
    /\ [](FetchingOp =>
            /\ \A i \in DOMAIN log :
                  ~log[i].ok => (i = Len(log) /\ pc = "done" /\ out.status = "raised")
            /\ out.status = "raised" =>
                  /\ pc = "done" /\ out.pfl = NonePfl /\ out.series = <<>>
                  /\ \A i \in DOMAIN Leaves(ts_tree) :
                        /\ i = pos => Leaves(ts_tree)[i].series = NoSeries
                        /\ i > pos => Untouched(Leaves(ts_tree)[i]))
    /\ [][(FetchingOp /\ out.status = "raised") => (pc' = "idle" /\ log' = <<>> /\ cache' = cache)]_vars

\* The fetch of the first of several leaves of the first of several constituents failed.
C15_Witness ==
    /\ pc = "done" /\ call.op = "portfolio_pfl" /\ out = OutRaise("RuntimeError")
    /\ pos = 1 /\ Len(Leaves(ts_tree)) >= 2 /\ todo # <<>>
    /\ Leaves(ts_tree)[1].tsid # NoTsid
    /\ log # <<>> /\ ~log[Len(log)].ok

\* The pfids update_cache has to list: the original portfolios and those of the prices.
PfidsToList ==
    {cfg.original.c[i].s : i \in DOMAIN cfg.original.c}
        \cup {Get(cfg.prices.c[i], "pfid").s : i \in DOMAIN cfg.prices.c}

\* How often the listing of portfolio p was requested.
ListRequests(p) == Cardinality({i \in DOMAIN log : log[i].op = "list" /\ log[i].pfid = p})

\* C16: when update_cache has returned, the listing of every original portfolio and of
\* every price's portfolio was requested exactly once, no other listing was requested
\* (none of a synthetic portfolio), and the cache holds, for every name in each of these
\* portfolios, the id of a timeseries with that name (the id of the only one, if one).
C16_UpdateCache ==
    (pc = "done" /\ call.op = "update_cache" /\ out.status = "returned") =>
        /\ \A p \in PfidsToList : ListRequests(p) = 1
        /\ \A i \in DOMAIN log : log[i].op = "list" => log[i].pfid \in PfidsToList
        /\ \A p \in Keys(cfg.synthetic) \ PfidsToList : ListRequests(p) = 0
        /\ \A r \in RemoteTs :
              r.pfid \in PfidsToList =>
                  /\ read_cache(cache, r.pfid, r.name) \in {m.tsid : m \in ExactMatches(r.pfid, r.name)}
                  /\ Cardinality(ExactMatches(r.pfid, r.name)) = 1 => read_cache(cache, r.pfid, r.name) = r.tsid

C16_Witness ==
    /\ pc = "done" /\ call.op = "update_cache" /\ out.status = "returned"
    /\ PfidsToList = {"A", "P1", "M"} /\ Keys(cfg.synthetic) = {"S", "T"}
    /\ ListRequests("A") = 1 /\ ListRequests("P1") = 1 /\ ListRequests("M") = 1
    /\ read_cache(cache, "M", "d") = 8 /\ read_cache(cache, "P1", "y") = 5

\* C17: general_pfl, portfolio_pfl and price_pfl never request the listing of a portfolio.
C17_NoImplicitListing ==
    FetchingOp => \A i \in DOMAIN log : log[i].op # "list"

\* C17, as the code has it: general_pfl, portfolio_pfl and price_pfl request the listing
\* of a portfolio only at a leaf of that portfolio whose name is not in the cache, once
\* for that leaf; a leaf whose name is in the cache gets its id without any request.
C17_ListingOnlyOnMiss ==
    [][(FetchingOp' /\ log' # <<>> /\ log' # log /\ \E i \in DOMAIN log' : i > Len(log) /\ log'[i].op = "list")
       => /\ pc = "fetch" /\ pos <= Len(Leaves(ts_tree)) /\ Leaf.tsid = NoTsid
          /\ ~\E e \in cache : e.pfid = Leaf.pfid /\ e.name = Leaf.name.s
          /\ \A i \in DOMAIN log' : (i > Len(log) /\ log'[i].op = "list") => (i = Len(log) + 1 /\ log'[i].pfid = Leaf.pfid)
      ]_vars

\* Portfolio A was in the cache and P1 was not: one listing, of P1.
C17_Witness ==
    /\ pc = "done" /\ call.op = "portfolio_pfl" /\ call.pfid = "S" /\ out.status = "returned"
    /\ ListRequests("P1") = 1 /\ ListRequests("A") = 0
    /\ \E i \in DOMAIN ts_trees : Leaves(ts_trees[i])[1].pfid = "A"

\* The index with right-bound timestamps made left-bound.
ShiftedLeft(idx) == [k \in DOMAIN idx |-> IF k = 1 THEN 2 * idx[1] - idx[2] ELSE idx[k - 1]]

NamesOf(chain) == [k \in DOMAIN chain |-> chain[k].f]

\* C19: the aftercare of a Tenant can be replaced, and can have one function prepended or
\* appended; every series fetched afterwards has passed exactly once through the
\* functions of the current chain, in chain order.
C19_ChainConfigurable ==
    /\ [][(pc = "idle" /\ call'.op = "set_aftercare") =>
              (out'.status = "returned" /\ aftercare' = call'.chain)]_vars
    /\ [][(pc = "idle" /\ call'.op = "prepend_aftercare") =>
              (out'.status = "returned" /\ aftercare' = call'.chain \o aftercare)]_vars
    /\ [][(pc = "idle" /\ call'.op = "append_aftercare") =>
              (out'.status = "returned" /\ aftercare' = aftercare \o call'.chain)]_vars
    /\ []((pc = "done" /\ out.status = "returned" /\ call.op = "general_pfl" /\ call.output_as_series) =>
              out.series[1].ser.adj = NamesOf(aftercare))

\* Seen on the code: a replaced aftercare function is the one applied to the next series.
C19_Witness ==
    /\ pc = "done" /\ out.status = "returned" /\ call.op = "general_pfl" /\ call.output_as_series
    /\ call.pfid = "M" /\ call.tsname = "d"
    /\ aftercare = <<Adj("cet_to_float", 8), Adj("makeleft", "")>>
    /\ out.series[1].ser.adj = <<"cet_to_float", "makeleft">>
    /\ out.series[1].ser.idx = <<60, 1500, 2940>>

\* The series of a series tree, in tree order.
RECURSIVE SeriesOf(_)
SeriesOf(series_tree) ==
    IF series_tree.t = "series" THEN <<series_tree.ser>>
    ELSE LET F[i \in 0..Len(series_tree.c)] ==
                 IF i = 0 THEN <<>> ELSE F[i - 1] \o SeriesOf(series_tree.c[i])
         IN  F[Len(series_tree.c)]

\* C20: an operation called with output_as_series returns no portfolio line but, for
\* every tree, one series per leaf: the adjusted series of that leaf.
C20_SeriesPerLeaf ==
    (pc = "done" /\ out.status = "returned" /\ call.output_as_series /\ FetchingOp) =>
        /\ out.pfl = NonePfl
        /\ Len(out.series) = Len(ts_trees)
        /\ \A i \in DOMAIN ts_trees :
              /\ Len(SeriesOf(out.series[i])) = Len(Leaves(ts_trees[i]))
              /\ \A k \in DOMAIN Leaves(ts_trees[i]) :
                    SeriesOf(out.series[i])[k] = apply_aftercare(Leaves(ts_trees[i])[k], aftercare)

\* Seen on the code: a dict of single names comes back as one adjusted series per leaf.
C20_Witness ==
    /\ pc = "done" /\ out.status = "returned" /\ call.output_as_series
    /\ call.op = "portfolio_pfl" /\ call.pfid = "A"
    /\ ts_trees[1].t = "dict" /\ Len(Leaves(ts_trees[1])) = 2
    /\ out.pfl = NonePfl
    /\ SeriesOf(out.series[1]) = <<apply_aftercare(Leaves(ts_trees[1])[1], aftercare),
                                    apply_aftercare(Leaves(ts_trees[1])[2], aftercare)>>
    /\ SeriesOf(out.series[1])[1].v = <<6, 6, 6>> /\ SeriesOf(out.series[1])[2].v = <<10, 20, 30>>

\* The names of a name tree in the order they are declared: the elements of a list in
\* list order, the values of a dict in the order of its keys, depth first.
RECURSIVE DeclaredNames(_)
DeclaredNames(tsname_tree) ==
    CASE tsname_tree.t = "str" -> <<tsname_tree>>
      [] tsname_tree.t = "list" -> tsname_tree.c
      [] tsname_tree.t = "dict" ->
            LET F[i \in 0..Len(tsname_tree.c)] ==
                    IF i = 0 THEN <<>> ELSE F[i - 1] \o DeclaredNames(tsname_tree.c[i])
            IN  F[Len(tsname_tree.c)]
      [] OTHER -> <<>>

\* The original portfolio the loop of portfolio_pfl is at.
CurrentOriginal ==
    LET originals == to_original_pfids(st, Str(call.pfid), RecursionLimit).c
    IN  originals[Len(originals) - Len(todo)].s

\* The portfolio and the name tree the tree being fetched was made of.
DeclaredPfid ==
    CASE call.op = "general_pfl" -> call.pfid
      [] call.op = "price_pfl" -> Get(Get(st.prices, call.priceid), "pfid").s
      [] OTHER -> CurrentOriginal
DeclaredTree ==
    CASE call.op = "general_pfl" -> Str(call.tsname)
      [] call.op = "price_pfl" -> Get(Get(st.prices, call.priceid), "tsnames")
      [] OTHER ->
            LET corr == CorrectionOf(CurrentOriginal, call.pflineid)
            IN  IF corr.t \in {"str", "list", "dict"} /\ corr # Str("notfound") THEN corr
                ELSE Get(st.pflines, call.pflineid)

\* The leaves whose fetch is complete, in the order of their completion.
LeavesOfTrees ==
    LET F[i \in 0..Len(ts_trees)] == IF i = 0 THEN <<>> ELSE F[i - 1] \o Leaves(ts_trees[i])
    IN  F[Len(ts_trees)]
LeavesDone ==
    IF pc = "fetch" THEN LeavesOfTrees \o SubSeq(Leaves(ts_tree), 1, pos - 1) ELSE LeavesOfTrees

IsValuesRequest(r) == r.op = "values" /\ r.ok

\* C22: while a tree is fetched its leaves are the declared names in declared order;
\* the leaves before the current one hold id and series, the current one holds no
\* series, the ones after it are untouched; the series requests sent so far are those of
\* the completed leaves, in order; and every step sends requests for the current leaf
\* only: the listing of its portfolio while it has no id, its data once it has one.
C22_SequentialDepthFirst ==
    /\ []((FetchingOp /\ pc = "fetch") =>
            /\ [i \in DOMAIN Leaves(ts_tree) |-> Leaves(ts_tree)[i].name] = DeclaredNames(DeclaredTree)
            /\ \A i \in DOMAIN Leaves(ts_tree) :
                  /\ Leaves(ts_tree)[i].pfid = DeclaredPfid
                  /\ i < pos => (Leaves(ts_tree)[i].tsid # NoTsid /\ Leaves(ts_tree)[i].series # NoSeries)
                  /\ i = pos => Leaves(ts_tree)[i].series = NoSeries
                  /\ i > pos => Untouched(Leaves(ts_tree)[i]))
    /\ []((FetchingOp /\ pc \in {"fetch", "loop"}) =>
            LET sent == SelectSeq(log, IsValuesRequest)
            IN  [i \in DOMAIN sent |-> sent[i].tsid] = [i \in DOMAIN LeavesDone |-> LeavesDone[i].tsid])
    /\ [][(FetchingOp /\ pc = "fetch" /\ log' # log) =>
            /\ Len(log') > Len(log) /\ SubSeq(log', 1, Len(log)) = log
            /\ pos <= Len(Leaves(ts_tree))
            /\ \A k \in (Len(log) + 1)..Len(log') :
                  IF Leaf.tsid = NoTsid
                  THEN /\ log'[k].op \in {"list", "metadata"}
                       /\ log'[k].op = "list" => log'[k].pfid = Leaf.pfid
                       /\ log'[k].op = "metadata" => RemoteOf(log'[k].tsid).pfid = Leaf.pfid
                  ELSE /\ log'[k].op \in {"metadata", "values"}
                       /\ log'[k].tsid = Leaf.tsid]_vars

\* The second leaf of a dict is about to be fetched, its id resolved, for the second
\* constituent of a synthetic portfolio: the series of the first constituent and of the
\* first leaf have been requested.
C22_Witness ==
    /\ pc = "fetch" /\ call.op = "portfolio_pfl" /\ Len(ts_trees) >= 1
    /\ ts_tree.t = "dict" /\ pos = 2 /\ Len(Leaves(ts_tree)) = 2
    /\ Leaf.tsid # NoTsid
    /\ Leaves(ts_tree)[1].name # Leaf.name
    /\ Len(SelectSeq(log, IsValuesRequest)) = Len(Leaves(ts_trees[1])) + 1

\* The states of a leaf: 0 unresolved, 1 id-resolved, 2 data-resolved.
LeafState(ts) == IF ts.series # NoSeries THEN 2 ELSE IF ts.tsid # NoTsid THEN 1 ELSE 0

\* C23: a leaf that holds a series holds an id; while a tree is fetched, every step
\* leaves each leaf where it is or moves it one state forward, a failing request
\* included; an id a leaf holds is kept, and while the current leaf holds an id no
\* listing is requested and the cache is not written.
C23_LeafStateMonotone ==
    /\ [](\A i \in DOMAIN Leaves(ts_tree) : Leaves(ts_tree)[i].series # NoSeries => Leaves(ts_tree)[i].tsid # NoTsid)
    /\ [](\A k \in DOMAIN ts_trees : \A i \in DOMAIN Leaves(ts_trees[k]) : LeafState(Leaves(ts_trees[k])[i]) = 2)
    /\ [][pc = "fetch" =>
            /\ Len(Leaves(ts_tree')) = Len(Leaves(ts_tree))
            /\ \A i \in DOMAIN Leaves(ts_tree) :
                  LET old == Leaves(ts_tree)[i]
                      new == Leaves(ts_tree')[i]
                  IN  /\ LeafState(new) \in {LeafState(old), LeafState(old) + 1}
                      /\ old.tsid # NoTsid => new.tsid = old.tsid
                      /\ old.series # NoSeries => new.series = old.series
                      /\ (new.pfid = old.pfid /\ new.name = old.name)
            /\ (pos <= Len(Leaves(ts_tree)) /\ Leaf.tsid # NoTsid) =>
                  /\ cache' = cache
                  /\ \A k \in (Len(log) + 1)..Len(log') : log'[k].op # "list"]_vars

\* The fetch of a leaf failed after its id had been resolved by a listing: the leaf
\* stays id-resolved, the leaf before it data-resolved.
C23_Witness ==
    /\ pc = "done" /\ out = OutRaise("RuntimeError") /\ FetchingOp
    /\ pos = 2 /\ LeafState(Leaves(ts_tree)[1]) = 2 /\ LeafState(Leaves(ts_tree)[2]) = 1
    /\ log # <<>> /\ log[Len(log)].op = "values" /\ ~log[Len(log)].ok
    /\ \E i \in DOMAIN log : log[i].op = "list"

\* C24: a constructed Structure stays what construction made of the configuration,
\* whatever is called; the tree tstree_pfline returns, and the tree an operation of the
\* Tenant starts to fetch, has untouched leaves only, also after the same line of the
\* same portfolio has been fetched before.
C24_RegistryReadOnly ==
    /\ [](st.status # "new" => st = Structure_post_init(cfg))
    /\ []((ret.op = "tstree_pfline" /\ ~IsRaise(ret.val)) =>
            \A i \in DOMAIN Leaves(ret.val) : Untouched(Leaves(ret.val)[i]))
    /\ [][/\ cfg' = cfg
          /\ st.status # "new" => st' = st
          /\ (pc # "fetch" /\ pc' = "fetch") =>
                \A i \in DOMAIN Leaves(ts_tree') : Untouched(Leaves(ts_tree')[i])]_vars

\* The line of portfolio A is about to be fetched a second time in one call: the first
\* tree of A holds ids and series, the cache holds the ids, the new tree holds neither.
C24_Witness ==
    /\ pc = "fetch" /\ pos = 1 /\ call.op = "portfolio_pfl" /\ Len(ts_trees) >= 2
    /\ Leaves(ts_tree) # <<>>
    /\ [i \in DOMAIN Leaves(ts_tree) |-> Leaves(ts_tree)[i].name]
          = [i \in DOMAIN Leaves(ts_trees[1]) |-> Leaves(ts_trees[1])[i].name]
    /\ \A i \in DOMAIN Leaves(ts_tree) :
          /\ Leaves(ts_tree)[i].pfid = Leaves(ts_trees[1])[i].pfid
          /\ LeafState(Leaves(ts_trees[1])[i]) = 2
          /\ Untouched(Leaves(ts_tree)[i])
          /\ read_cache(cache, Leaves(ts_tree)[i].pfid, Leaves(ts_tree)[i].name.s) # NoTsid

\* portfolio_pfl has been called for a line that is not in available_pflineids of the
\* portfolio.
LineUnavailable ==
    call.op = "portfolio_pfl" /\ call.pflineid \notin available_pflineids(st, call.pfid).ids

\* C30: portfolio_pfl for a line that is not available on the portfolio sends no request
\* and leaves the cache as it is, and ends by raising, also for a synthetic portfolio of
\* which some constituents have the line.
C30_UnavailableLineNoRequests ==
    /\ []((LineUnavailable /\ pc = "done") => out.status = "raised")
    /\ [][LineUnavailable' => (log' = <<>> /\ cache' = cache)]_vars

\* C30, seen on the code: the first constituent of a synthetic portfolio lacks the line,
\* a later one has it: the call raises before any request.
C30_Witness ==
    /\ LineUnavailable /\ IsSynthetic(call.pfid) /\ pc = "done" /\ out.status = "raised"
    /\ log = <<>> /\ todo # <<>>
    /\ \E i \in DOMAIN todo : call.pflineid \in available_pflineids(st, todo[i]).ids

----------------------------------------------------------------------------
(* Properties of Api.query *)

\* C13: every call of Api.query whose first request got a response other than 200 has
\* authenticated once and, the authentication having succeeded, has sent the request
\* exactly twice; it raised RuntimeError only when it had sent the request twice.
C13_RetryOncePerCall ==
    \A i \in DOMAIN hist :
        hist[i].first \in {"401", "500"} =>
            /\ hist[i].auths = 1
            /\ hist[i].auth_ok => hist[i].sent = 2
            /\ hist[i].result = "RuntimeError" => hist[i].sent = 2

\* Seen on the code: a first call that failed, re-authenticated and got its answer.
C13_Witness ==
    /\ Len(hist) >= 1
    /\ hist[1] = [sent |-> 2, auths |-> 1, first |-> "401", auth_ok |-> TRUE, result |-> "ok"]

\* C29: a call of Api.query authenticates at most once and sends at most two requests;
\* a call that has sent a request ends, with a result or with an error; and when a call
\* ends with the result of a 200 response, _retry is True, and still is when the call
\* has returned.
C29_QueryBounded ==
    /\ [](qcall.sent <= 2 /\ qcall.auths <= 1)
    /\ [](\A i \in DOMAIN hist :
            /\ hist[i].sent \in 1..2 /\ hist[i].auths <= 1
            /\ hist[i].result \in {"ok", "ConnectionError", "RuntimeError", "PermissionError"})
    /\ [][(qpc' = "done" /\ qcall'.result = "ok") => retry' = TRUE]_vars
    /\ []((qpc = "idle" /\ hist # <<>> /\ hist[Len(hist)].result = "ok") => retry = TRUE)
    /\ (qpc = "request") ~> (qpc = "done")
    /\ (qpc = "authenticate") ~> (qpc = "done")

\* A first call used up the retry and raised; the second call got its answer at once;
\* the third call authenticated once, sent its request twice and got its answer.
C29_Witness ==
    /\ qpc = "idle" /\ Len(hist) = 3 /\ retry = TRUE
    /\ hist[1] = [sent |-> 2, auths |-> 1, first |-> "401", auth_ok |-> TRUE, result |-> "RuntimeError"]
    /\ hist[2] = [sent |-> 1, auths |-> 0, first |-> "200", auth_ok |-> FALSE, result |-> "ok"]
    /\ hist[3] = [sent |-> 2, auths |-> 1, first |-> "401", auth_ok |-> TRUE, result |-> "ok"]

====
